---- MODULE Spec2Model ----
(***************************************************************************)
(* A model of the flashcard scheduler (src/src/cardbox.rs), its progress   *)
(* database (src/src/db.rs) and the fingerprint of a flashcard             *)
(* (src/src/flashcards/flashcard.rs).                                      *)
(*                                                                         *)
(* u64 values.  Every timestamp, clock reading and hash of the program is  *)
(* a u64.  TLC's integers are 32 bits wide, so a u64 value v is written    *)
(* here as the integer congruent to v modulo 2^64 that lies nearest to 0:  *)
(* a small value is itself, and a value just below 2^64 (the result of a   *)
(* wrapped subtraction) is the negative integer v - 2^64.  wrapping_sub    *)
(* and u64_le below are exact on this representation for all the values    *)
(* the model draws.                                                        *)
(***************************************************************************)
EXTENDS Integers, Sequences, FiniteSets, TLC

(***************************************************************************)
(* Bounds of the model.                                                    *)
(***************************************************************************)
\* the largest number of flashcards in the parsed cardbox file
MaxCards == 4
\* the largest number of cards the user answers in one session
MaxAnswers == 3
\* the most lines on the back of a flashcard, and the most parts of a line,
\* when flashcards are hashed
MaxLines == 2

VARIABLES
    debug_assertions,   \* the build profile: cfg(debug_assertions)
    flashcards,         \* the Vec<Flashcard> that parse_from_file returns
    files,              \* the file system: what is at each of the Paths
    progress,           \* Cardbox.progress: hash -> Stage
    stage0,             \* Cardbox.stage0: VecDeque<Flashcard>
    stage1,             \* Cardbox.stage1 .. stage5: VecDeque<Envelope>
    stage2,
    stage3,
    stage4,
    stage5,
    now,                \* the latest reading of the system clock
    pc,                 \* where main is: "start", "new", "loop", "presented",
                        \* "exit", "done", "panicked", and "reading" in
                        \* a db::load that never returns
    last,               \* the last call made on the cardbox and what it returned
    answers,            \* the number of cards answered in this session
    card_validator,     \* main's FlashcardValidator of the presented card
                        \* (<<>> while there is none)
    validating,         \* the position of main's loop over its validators
    entered,            \* per validator, the characters on its input line
    parser              \* cardbox_parser::parse: its reader and its locals
                        \* (<<>> while nothing is parsed)

\* the validation of the presented card
validation == <<card_validator, validating, entered>>

vars == <<debug_assertions, flashcards, files, progress,
          stage0, stage1, stage2, stage3, stage4, stage5, now, pc, last, answers,
          card_validator, validating, entered, parser>>

(***************************************************************************)
(* u64 arithmetic (see the header).                                        *)
(***************************************************************************)
\* a <= b on u64: a value written as a negative integer lies just below 2^64
u64_le(a, b) == IF (a < 0) = (b < 0) THEN a <= b ELSE a >= 0

\* a - b overflows u64 exactly when a < b as unsigned values
sub_overflows(a, b) == ~ u64_le(b, a)

\* a.wrapping_sub(b): what `a - b` evaluates to when overflow checks are off
wrapping_sub(a, b) == a - b

(***************************************************************************)
(* constants.rs                                                            *)
(***************************************************************************)
INITIAL_QUEUE_SIZE == 3

STAGE1_COOLDOWN == 0
STAGE2_COOLDOWN == IF debug_assertions THEN 120 ELSE 3600
STAGE3_COOLDOWN == IF debug_assertions THEN 240 ELSE 21600
STAGE4_COOLDOWN == IF debug_assertions THEN 480 ELSE 86400
STAGE5_COOLDOWN == IF debug_assertions THEN 960 ELSE 604800

\* the cooldown of stage k, in seconds, as next() names it per stage
COOLDOWN(k) ==
    CASE k = 1 -> STAGE1_COOLDOWN
      [] k = 2 -> STAGE2_COOLDOWN
      [] k = 3 -> STAGE3_COOLDOWN
      [] k = 4 -> STAGE4_COOLDOWN
      [] k = 5 -> STAGE5_COOLDOWN

(***************************************************************************)
(* Flashcards and their hash.                                              *)
(***************************************************************************)
\* Strings are sequences of bytes.  All the cards of one file share the
\* subject (the file name); card i has face <<i>> and, unless it repeats the
\* back of the first card, the one-line back <<i>>.
Flashcard(i, dup) ==
    [subject |-> <<1>>,
     face    |-> <<i>>,
     back    |-> [kind |-> "WriteTheLine", lines |-> << <<IF dup THEN 1 ELSE i>> >>],
     note    |-> IF dup THEN <<7>> ELSE <<>>]

\* the cardbox files the model reads: n cards, all with their own back, or
\* the last of MaxCards cards with the subject and back of card 1 but
\* another face and a note
CardboxFiles ==
    { [i \in 1..n |-> Flashcard(i, i = d)] : n \in 0..MaxCards, d \in {0, MaxCards} }

RECURSIVE Concat(_)
\* the bytes of a sequence of strings, in order
Concat(strings) ==
    IF strings = <<>> THEN <<>> ELSE Head(strings) \o Concat(Tail(strings))

RECURSIVE XxHash64(_)
\* XxHash64 of a byte stream, taken as injective on the streams of the
\* model, whose bytes are all in 1..31
XxHash64(bytes) ==
    IF bytes = <<>> THEN 0
    ELSE XxHash64(SubSeq(bytes, 1, Len(bytes) - 1)) * 32 + bytes[Len(bytes)]

\* the text of every line part of every line of a FillTheBlank back
LinePartTexts(lines) ==
    Concat([i \in 1..Len(lines) |-> Concat([j \in 1..Len(lines[i]) |-> lines[i][j][1]])])

\* get_hash with the face written to the hasher after the subject
get_hash_with_face(flashcard) ==
    XxHash64(flashcard.subject \o flashcard.face \o
             (IF flashcard.back.kind = "FillTheBlank"
              THEN LinePartTexts(flashcard.back.lines)
              ELSE Concat(flashcard.back.lines)))

\* Flashcard::get_hash: the subject, then every line (part) of the back
get_hash(flashcard) ==
    XxHash64(flashcard.subject \o
             (IF flashcard.back.kind = "FillTheBlank"
              THEN LinePartTexts(flashcard.back.lines)
              ELSE Concat(flashcard.back.lines)))

(***************************************************************************)
(* The clock: common/time.rs get_unix_time_millis.  Every call reads the   *)
(* system clock, which the program does not control; the model draws each  *)
(* reading from the instants at which a cooldown of the build starts or    *)
(* ends.                                                                   *)
(***************************************************************************)
TimePoints ==
    {0, STAGE2_COOLDOWN * 1000, STAGE5_COOLDOWN * 1000 - 1, STAGE5_COOLDOWN * 1000}

\* the results of n successive calls of get_unix_time_millis: the clock
\* does not run backwards, neither within a session nor since the database
\* was written
ClockReadings(n) ==
    { times \in [1..n -> TimePoints] :
        /\ \A i \in 1..n : now <= times[i]
        /\ \A i \in 1..n, j \in 1..n : i <= j => times[i] <= times[j] }

\* the clock after the readings
clock_after(times) == IF times = <<>> THEN now ELSE times[Len(times)]

(***************************************************************************)
(* db.rs: the progress database.  The file is text, one line               *)
(* `hash;index;timestamp_ms` per record; a line is the sequence of its     *)
(* characters and the content of a file is the set of its lines (db::save  *)
(* writes them in the HashMap's arbitrary order, and no file of the model  *)
(* has two lines of one hash).  A file is missing or has a content.        *)
(***************************************************************************)
Stage(index, timestamp_ms) == [index |-> index, timestamp_ms |-> timestamp_ms]

\* a file that exists, with these lines
File(lines) == [exists |-> TRUE, lines |-> lines]

\* no file at the path
Missing == [exists |-> FALSE, lines |-> {}]

\* fs::get_progress_db_path(): the path Cardbox hands to db::load and db::save
ProgressDbPath == "progress.db"

\* the path of debug builds
SampleDbPath == "./sample_db.txt"

Paths == {ProgressDbPath, SampleDbPath}

\* the first statement of db::load and db::save: a debug build uses
\* ./sample_db.txt whatever fname is
path(fname) == IF debug_assertions THEN SampleDbPath ELSE fname

Digits == <<"0", "1", "2", "3", "4", "5", "6", "7", "8", "9">>

RECURSIVE to_string(_)
\* `{}` of a u64: its decimal digits
to_string(n) ==
    IF n < 10 THEN <<Digits[n + 1]>>
    ELSE to_string(n \div 10) \o <<Digits[(n % 10) + 1]>>

\* writeln!(buffered, "{};{};{}", hash, stage.index, stage.timestamp_ms)
format_line(hash, stage) ==
    to_string(hash) \o <<";">> \o to_string(stage.index) \o <<";">>
        \o to_string(stage.timestamp_ms)

RECURSIVE split(_, _)
\* line.split(sep).collect(): the parts between the separators
split(line, sep) ==
    IF \A i \in 1..Len(line) : line[i] # sep THEN <<line>>
    ELSE LET at == CHOOSE i \in 1..Len(line) :
                       line[i] = sep /\ \A j \in 1..(i - 1) : line[j] # sep
         IN  <<SubSeq(line, 1, at - 1)>> \o split(SubSeq(line, at + 1, Len(line)), sep)

\* the value of a decimal digit
digit_value(c) == (CHOOSE d \in 1..10 : Digits[d] = c) - 1

RECURSIVE decimal(_)
decimal(text) ==
    IF text = <<>> THEN 0
    ELSE decimal(SubSeq(text, 1, Len(text) - 1)) * 10 + digit_value(text[Len(text)])

\* str::parse::<u64>: the number of a non-empty string of decimal digits,
\* which one "+" may precede; an error for any other string (the numbers of
\* the model are far below 2^64)
parse_u64(text) ==
    LET digits == IF text # <<>> /\ Head(text) = "+" THEN Tail(text) ELSE text
    IN  IF digits # <<>> /\ \A i \in 1..Len(digits) : \E d \in 1..10 : Digits[d] = digits[i]
        THEN [ok |-> TRUE, value |-> decimal(digits)]
        ELSE [ok |-> FALSE]

\* the closure of db::load on one line: the hash and the Stage of the line;
\* parts[1] and parts[2] must exist and the three fields must parse, else
\* the closure panics (not ok)
parse_line(line) ==
    LET parts == split(line, ";")
    IN  IF Len(parts) < 3 THEN [ok |-> FALSE]
        ELSE LET hash == parse_u64(parts[1])
                 index == parse_u64(parts[2])
                 timestamp_ms == parse_u64(parts[3])
             IN  IF hash.ok /\ index.ok /\ timestamp_ms.ok
                 THEN [ok |-> TRUE, hash |-> hash.value,
                       stage |-> Stage(index.value, timestamp_ms.value)]
                 ELSE [ok |-> FALSE]

\* the stage indexes found in the database at start-up; 6 is out of range
StoreIndexes == 1..6

\* the cards whose hash may be found in the database at start-up
StoreCards == {1, 2}

\* the timestamp of the line of a card: card 1 entered its stage one stage-2
\* cooldown after card 2 did, although it comes first in the cardbox file
StoreTime(i) == IF i = 1 THEN STAGE2_COOLDOWN * 1000 ELSE 0

\* the latest timestamp of the lines of a database file (0 for none): the
\* clock of the session starts there
latest(lines) ==
    LET stamps == {0} \cup {parse_line(line).stage.timestamp_ms :
                                line \in {l \in lines : parse_line(l).ok}}
    IN  CHOOSE t \in stamps : \A u \in stamps : u <= t

\* db::load, from the lines read: the HashMap of the lines, or a panic on a
\* line that does not parse
load(lines) ==
    LET parsed == [line \in lines |-> parse_line(line)]
    IN  IF \E line \in lines : ~ parsed[line].ok
        THEN [panic |-> TRUE]
        ELSE [panic |-> FALSE,
              db |-> [h \in {parsed[line].hash : line \in lines} |->
                        LET line == CHOOSE x \in lines : parsed[x].hash = h
                        IN  parsed[line].stage]]

\* db::save: one line per entry of the HashMap
save_lines(db) == { format_line(h, db[h]) : h \in DOMAIN db }

(***************************************************************************)
(* cardbox.rs: the six queues.  `box` is the tuple of the queues, box[0]   *)
(* being stage0 (bare flashcards) and box[1..5] stage1..stage5 (envelopes).*)
(***************************************************************************)
Envelope(flashcard, hash, timestamp) ==
    [flashcard |-> flashcard, hash |-> hash, timestamp |-> timestamp]

box == [k \in 0..5 |->
          CASE k = 0 -> stage0 [] k = 1 -> stage1 [] k = 2 -> stage2
            [] k = 3 -> stage3 [] k = 4 -> stage4 [] k = 5 -> stage5]

\* Cardbox::new: six empty queues
EmptyBox == [k \in 0..5 |-> <<>>]

\* the queues after the call are those of b
SetBox(b) ==
    /\ stage0' = b[0]
    /\ stage1' = b[1]
    /\ stage2' = b[2]
    /\ stage3' = b[3]
    /\ stage4' = b[4]
    /\ stage5' = b[5]

\* the queues of Cardbox::new
SetBoxInit ==
    /\ stage0 = EmptyBox[0]
    /\ stage1 = EmptyBox[1]
    /\ stage2 = EmptyBox[2]
    /\ stage3 = EmptyBox[3]
    /\ stage4 = EmptyBox[4]
    /\ stage5 = EmptyBox[5]

\* VecDeque::push_back on queue k
push_back(b, k, x) == [b EXCEPT ![k] = Append(@, x)]

\* VecDeque::pop_front on queue k (the queue that is left)
pop_front(b, k) == [b EXCEPT ![k] = Tail(@)]

\* Cardbox::size
size(b) == Len(b[0]) + Len(b[1]) + Len(b[2]) + Len(b[3]) + Len(b[4]) + Len(b[5])

\* Cardbox::num_active
num_active(b) == Len(b[1]) + Len(b[2]) + Len(b[3]) + Len(b[4]) + Len(b[5])

\* the contents of the database file at start-up: a line for any of the
\* StoreCards
DbFiles ==
    { { format_line(get_hash(Flashcard(i, FALSE)), Stage(index[i], StoreTime(i))) :
          i \in cards } :
        cards \in SUBSET StoreCards, index \in [StoreCards -> StoreIndexes] }

\* the line db::save writes for card i in stage 1
StoreLine(i) == format_line(get_hash(Flashcard(i, FALSE)), Stage(1, StoreTime(i)))

\* lines that are not three decimal fields: two fields, an empty line, a
\* fourth field, a separator after the third field, a field that is no
\* number, a field with a sign
MalformedLines ==
    { to_string(get_hash(Flashcard(1, FALSE))) \o <<";", "1">>,
      <<>>,
      StoreLine(1) \o <<";", "9">>,
      StoreLine(1) \o <<";">>,
      to_string(get_hash(Flashcard(1, FALSE))) \o <<";", "x", ";", "0">>,
      <<"+">> \o StoreLine(1) }

\* database files with one such line, alone or beside the line of card 2
MalformedDbFiles ==
    { {line} \cup rest : line \in MalformedLines, rest \in {{}, {StoreLine(2)}} }

\* what the last call was: its name, its stage argument (0 when it has
\* none), the clock readings it made, and what it returned
Call(op, stage, times, ret) == [op |-> op, stage |-> stage, times |-> times, ret |-> ret]

Unit == [kind |-> "unit"]
\* an error value returned to the caller (Result::Err)
Err == [kind |-> "Err"]
Panic == [kind |-> "panic"]
\* the call never returns
Hangs == [kind |-> "hangs"]
None == [kind |-> "None"]
Some(flashcard, stage) == [kind |-> "Some", flashcard |-> flashcard, stage |-> stage]

(***************************************************************************)
(* Cardbox::new, with db::load                                             *)
(***************************************************************************)
\* db::load where there is no file: File::create makes an empty file and
\* opens it for writing only, so every read of the handle is an error;
\* `lines()` yields that error at each call and `filter_map(|r| r.ok())`
\* drops it and asks again: the loop never ends
reads_created_file == Hangs

\* Cardbox::new when the file system does what it is asked: six empty
\* queues, and progress is what db::load makes of the database file, which
\* it creates, empty, when there is none at the path it uses
new ==
    /\ pc = "start"
    /\ LET p == path(ProgressDbPath)
           file == IF files[p].exists THEN files[p] ELSE File({})
           loaded == IF files[p].exists THEN load(file.lines) ELSE reads_created_file
       IN  /\ files' = [files EXCEPT ![p] = file]
           /\ IF loaded = Hangs
              THEN /\ pc' = "reading"
                   /\ last' = Call("new", 0, <<>>, Hangs)
                   /\ UNCHANGED progress
              ELSE IF loaded.panic
              THEN /\ pc' = "panicked"
                   /\ last' = Call("new", 0, <<>>, Panic)
                   /\ UNCHANGED progress
              ELSE /\ pc' = "new"
                   /\ last' = Call("new", 0, <<>>, Unit)
                   /\ progress' = loaded.db
    /\ UNCHANGED <<parser, validation, debug_assertions, flashcards, stage0, stage1, stage2, stage3,
                   stage4, stage5, now, answers>>

\* Cardbox::new when File::open, DirBuilder::create or File::create fails in
\* db::load: the `expect` on it panics; no file is created or changed
new_fails ==
    /\ pc = "start"
    /\ pc' = "panicked"
    /\ last' = Call("new", 0, <<>>, Panic)
    /\ UNCHANGED <<parser, validation, debug_assertions, flashcards, files, progress, stage0, stage1,
                   stage2, stage3, stage4, stage5, now, answers>>

\* Cardbox::new when reading some lines of the file fails: db::load drops
\* every Err of buffered.lines() (`filter_map(|r| r.ok())`) and goes on with
\* the lines it could read
new_skipping_lines ==
    /\ pc = "start"
    /\ LET p == path(ProgressDbPath)
       IN  /\ files[p].exists
           /\ \E unread \in (SUBSET files[p].lines) \ {{}} :
                LET loaded == load(files[p].lines \ unread)
                IN  IF loaded.panic
                    THEN /\ pc' = "panicked"
                         /\ last' = Call("new", 0, <<>>, Panic)
                         /\ UNCHANGED progress
                    ELSE /\ pc' = "new"
                         /\ last' = Call("new", 0, <<>>, Unit)
                         /\ progress' = loaded.db
    /\ UNCHANGED <<parser, validation, debug_assertions, flashcards, files, stage0, stage1, stage2,
                   stage3, stage4, stage5, now, answers>>

(***************************************************************************)
(* Cardbox::init                                                           *)
(***************************************************************************)
RECURSIVE classify(_, _, _)
\* the first loop of init: every flashcard, in file order, goes to the queue
\* its record in the progress database names, or to stage0 when it has none.
\* The result is the queues, or a panic on a record with an invalid stage.
\* (classify_stamping_now is classify with one change: the envelope of a
\* recorded flashcard is stamped with the clock, not with the recorded time.)
RECURSIVE classify_stamping_now(_, _, _)
classify_stamping_now(cards, db, b) ==
    IF cards = <<>> THEN [panic |-> FALSE, box |-> b]
    ELSE LET flashcard == Head(cards)
             hash == get_hash(flashcard)
         IN  IF hash \in DOMAIN db
             THEN IF db[hash].index \in 1..5
                  THEN classify_stamping_now(Tail(cards), db,
                                push_back(b, db[hash].index,
                                          Envelope(flashcard, hash, now)))
                  ELSE [panic |-> TRUE]
             ELSE classify_stamping_now(Tail(cards), db, push_back(b, 0, flashcard))

classify(cards, db, b) ==
    IF cards = <<>> THEN [panic |-> FALSE, box |-> b]
    ELSE LET flashcard == Head(cards)
             hash == get_hash(flashcard)
         IN  IF hash \in DOMAIN db
             THEN IF db[hash].index \in 1..5
                  THEN classify(Tail(cards), db,
                                push_back(b, db[hash].index,
                                          Envelope(flashcard, hash, db[hash].timestamp_ms)))
                  ELSE [panic |-> TRUE]
             ELSE classify(Tail(cards), db, push_back(b, 0, flashcard))

\* the condition of the refill loop, one short: it stops one envelope early
has_room_below(b) == b[0] # <<>> /\ Len(b[1]) + 1 < INITIAL_QUEUE_SIZE

\* the condition of the refill loop with <= for <
has_room_inclusive(b) == b[0] # <<>> /\ Len(b[1]) <= INITIAL_QUEUE_SIZE

\* the condition of a refill loop that runs only while stage1 is empty
has_room_when_empty(b) == b[0] # <<>> /\ b[1] = <<>>

\* the condition of the refill loop
has_room(b) == b[0] # <<>> /\ Len(b[1]) < INITIAL_QUEUE_SIZE

RECURSIVE refill_count(_)
\* how often the refill loop runs: once per flashcard it moves
refill_count(b) ==
    IF has_room(b)
    THEN 1 + refill_count(push_back(pop_front(b, 0), 1, "envelope"))
    ELSE 0

\* the refill with `if` for `while`: it moves one flashcard at most
refill_once(b, times) ==
    IF has_room(b)
    THEN LET flashcard == Head(b[0])
             envelope == Envelope(flashcard, get_hash(flashcard), Head(times))
         IN  push_back(pop_front(b, 0), 1, envelope)
    ELSE b

RECURSIVE refill(_, _)
\* the refill loop of init and of increase_stage(1): while stage0 is not
\* empty and stage1 holds fewer than INITIAL_QUEUE_SIZE envelopes, the front
\* of stage0 becomes an envelope, stamped with a fresh clock reading, at the
\* back of stage1
refill(b, times) ==
    IF has_room(b)
    THEN LET flashcard == Head(b[0])
             envelope == Envelope(flashcard, get_hash(flashcard), Head(times))
         IN  refill(push_back(pop_front(b, 0), 1, envelope), Tail(times))
    ELSE b

init ==
    /\ pc = "new"
    /\ LET classified == classify(flashcards, progress, box)
       IN  IF classified.panic
           THEN /\ pc' = "panicked"
                /\ last' = Call("init", 0, <<>>, Panic)
                /\ UNCHANGED <<stage0, stage1, stage2, stage3, stage4, stage5, now>>
           ELSE \E times \in ClockReadings(refill_count(classified.box)) :
                    /\ SetBox(refill(classified.box, times))
                    /\ now' = clock_after(times)
                    /\ pc' = "loop"
                    /\ last' = Call("init", 0, times, Unit)
    /\ UNCHANGED <<parser, validation, debug_assertions, flashcards, files, progress, answers>>

(***************************************************************************)
(* Cardbox::next                                                           *)
(***************************************************************************)
\* `current_time - STAGEk_COOLDOWN * 1000` on u64: a debug build checks the
\* subtraction and panics when it overflows, a release build wraps
cooldown_start(current_time, k) ==
    IF sub_overflows(current_time, COOLDOWN(k) * 1000) /\ debug_assertions
    THEN Panic
    ELSE [kind |-> "u64", value |-> wrapping_sub(current_time, COOLDOWN(k) * 1000)]

\* the test next() makes on the front envelope of a stage
front_passes(envelope, limit) == u64_le(envelope.timestamp, limit)

RECURSIVE scan(_, _, _)
\* next() from stage k downwards: the first stage whose queue is not empty
\* and whose front passes the test gives the result
scan(b, current_time, k) ==
    IF k = 0 THEN None
    ELSE IF b[k] = <<>> THEN scan(b, current_time, k - 1)
    ELSE LET limit == cooldown_start(current_time, k)
         IN  IF limit = Panic THEN Panic
             ELSE IF front_passes(Head(b[k]), limit.value)
                  THEN Some(Head(b[k]).flashcard, k)
                  ELSE scan(b, current_time, k - 1)

next ==
    /\ pc = "loop"
    /\ \E times \in ClockReadings(1) :
         LET ret == scan(box, times[1], 5)
         IN  /\ last' = Call("next", 0, times, ret)
             /\ now' = clock_after(times)
             /\ pc' = CASE ret = Panic -> "panicked"
                        [] ret = None -> "exit"
                        [] OTHER -> "presented"
    /\ UNCHANGED <<parser, validation, debug_assertions, flashcards, files, progress,
                   stage0, stage1, stage2, stage3, stage4, stage5, answers>>

(***************************************************************************)
(* Cardbox::increase_stage and Cardbox::reset_stage                        *)
(***************************************************************************)
\* a match on current_stage whose arms take every value: a stage below 1 runs
\* the arm of stage 1 and a stage above 5 the arm of stage 5
match_arm_clamped(current_stage) ==
    IF current_stage < 1 THEN 1 ELSE IF current_stage > 5 THEN 5 ELSE current_stage

\* `match current_stage`: the arm that runs is the one of the stage, and for
\* a stage that is none of 1..5 it is `_ => panic!` (0 here)
match_arm(current_stage) == IF current_stage \in 1..5 THEN current_stage ELSE 0

\* a pop that turns to the highest queue that has an envelope when the queue
\* of the stage has none
unwrap_front_or_other(b, k) ==
    LET full == {j \in 1..5 : b[j] # <<>>}
        j == IF b[k] # <<>> THEN k ELSE CHOOSE x \in full : \A y \in full : y <= x
    IN  IF full = {} THEN Panic
        ELSE [kind |-> "popped", envelope |-> Head(b[j]), box |-> pop_front(b, j)]

\* self.stageK.pop_front().unwrap(): the front envelope and the queues that
\* are left, or a panic when the queue is empty
unwrap_front(b, k) ==
    IF b[k] = <<>> THEN Panic
    ELSE [kind |-> "popped", envelope |-> Head(b[k]), box |-> pop_front(b, k)]

\* an arm of increase_stage that does not stamp the envelope
promote_unstamped(b, current_stage, timestamp) ==
    LET envelope == Head(b[current_stage])
        next_stage == IF current_stage = 5 THEN 5 ELSE current_stage + 1
    IN  push_back(pop_front(b, current_stage), next_stage, envelope)

\* the arm of increase_stage for a stage: pop the front, stamp it, push it
\* to the back of the next stage (of stage5 itself from stage 5)
promote(b, current_stage, timestamp) ==
    LET popped == unwrap_front(b, current_stage)
        envelope == [popped.envelope EXCEPT !.timestamp = timestamp]
        next_stage == IF current_stage = 5 THEN 5 ELSE current_stage + 1
    IN  push_back(popped.box, next_stage, envelope)

\* a reset_stage that reads the front (front() for pop_front()) and so
\* leaves the envelope in its queue as well
demote_keeping_front(b, current_stage, timestamp) ==
    LET envelope == [Head(b[current_stage]) EXCEPT !.timestamp = timestamp]
    IN  push_back(b, 1, envelope)

\* a reset_stage that sends the envelope one stage down, not to stage1
demote_one_stage(b, current_stage, timestamp) ==
    LET envelope == [Head(b[current_stage]) EXCEPT !.timestamp = timestamp]
        previous == IF current_stage = 1 THEN 1 ELSE current_stage - 1
    IN  push_back(pop_front(b, current_stage), previous, envelope)

\* a reset_stage that stamps every envelope of stage1, not only the one it
\* pushes
demote_stamping_stage1(b, current_stage, timestamp) ==
    LET popped == unwrap_front(b, current_stage)
        pushed == push_back(popped.box, 1, popped.envelope)
    IN  [pushed EXCEPT ![1] = [i \in 1..Len(pushed[1]) |->
                                 [pushed[1][i] EXCEPT !.timestamp = timestamp]]]

\* a reset_stage that pushes the envelope with the timestamp it has
demote_unstamped(b, current_stage, timestamp) ==
    LET popped == unwrap_front(b, current_stage)
    IN  push_back(popped.box, 1, popped.envelope)

\* the body of reset_stage: pop the front, stamp it, push it to stage1
demote(b, current_stage, timestamp) ==
    LET popped == unwrap_front(b, current_stage)
        envelope == [popped.envelope EXCEPT !.timestamp = timestamp]
    IN  push_back(popped.box, 1, envelope)

\* the match on current_stage panics on an invalid stage, and the unwrap of
\* pop_front panics on an empty queue
stage_call_panics(b, current_stage) ==
    \/ match_arm(current_stage) = 0
    \/ unwrap_front(b, match_arm(current_stage)) = Panic

\* main after increase_stage or reset_stage: wait_for_return ends the
\* session or the loop goes on
after_answer == {"loop", "exit"}

increase_stage(current_stage) ==
    /\ pc = "presented"
    /\ answers' = answers + 1
    /\ IF stage_call_panics(box, current_stage)
       THEN /\ pc' = "panicked"
            /\ last' = Call("increase_stage", current_stage, <<>>, Panic)
            /\ UNCHANGED <<stage0, stage1, stage2, stage3, stage4, stage5, now>>
       ELSE \E times \in ClockReadings(1 + (IF match_arm(current_stage) = 1
                                            THEN refill_count(unwrap_front(box, 1).box)
                                            ELSE 0)) :
              LET promoted == promote(box, match_arm(current_stage), Head(times))
              IN  /\ SetBox(IF match_arm(current_stage) = 1
                            THEN refill(promoted, Tail(times))
                            ELSE promoted)
                  /\ now' = clock_after(times)
                  /\ last' = Call("increase_stage", current_stage, times, Unit)
                  /\ pc' \in after_answer
    /\ UNCHANGED <<parser, validation, debug_assertions, flashcards, files, progress>>

reset_stage(current_stage) ==
    /\ pc = "presented"
    /\ answers' = answers + 1
    /\ IF stage_call_panics(box, current_stage)
       THEN /\ pc' = "panicked"
            /\ last' = Call("reset_stage", current_stage, <<>>, Panic)
            /\ UNCHANGED <<stage0, stage1, stage2, stage3, stage4, stage5, now>>
       ELSE \E times \in ClockReadings(1) :
              /\ SetBox(demote(box, match_arm(current_stage), Head(times)))
              /\ now' = clock_after(times)
              /\ last' = Call("reset_stage", current_stage, times, Unit)
              /\ pc' \in after_answer
    /\ UNCHANGED <<parser, validation, debug_assertions, flashcards, files, progress>>

\* a loop that truncates the database file as the user quits
quit_truncating ==
    /\ pc = "presented"
    /\ pc' = "exit"
    /\ files' = [files EXCEPT ![path(ProgressDbPath)] = File({})]
    /\ UNCHANGED <<parser, validation, debug_assertions, flashcards, progress,
                   stage0, stage1, stage2, stage3, stage4, stage5, now, last, answers>>

\* main: read_input_blanks returns false (the user quits) and the loop ends
\* before the card is answered
quit ==
    /\ pc = "presented"
    /\ pc' = "exit"
    /\ UNCHANGED <<parser, validation, debug_assertions, flashcards, files, progress,
                   stage0, stage1, stage2, stage3, stage4, stage5, now, last, answers>>

(***************************************************************************)
(* Cardbox::save                                                           *)
(***************************************************************************)
RECURSIVE insert_all(_, _, _)
\* one loop of save: insert a Stage for every envelope of a queue
\* (insert_all_into_stage1 is insert_all with one change: every Stage it
\* inserts has the index 1.)
RECURSIVE insert_all_into_stage1(_, _, _)
insert_all_into_stage1(db, envelopes, index) ==
    IF envelopes = <<>> THEN db
    ELSE LET envelope == Head(envelopes)
             stage == Stage(1, envelope.timestamp)
         IN  insert_all_into_stage1([h \in DOMAIN db \cup {envelope.hash} |->
                                        IF h = envelope.hash THEN stage ELSE db[h]],
                                    Tail(envelopes), index)

insert_all(db, envelopes, index) ==
    IF envelopes = <<>> THEN db
    ELSE LET envelope == Head(envelopes)
             stage == Stage(index, envelope.timestamp)
         IN  insert_all([h \in DOMAIN db \cup {envelope.hash} |->
                            IF h = envelope.hash THEN stage ELSE db[h]],
                        Tail(envelopes), index)

\* the five loops of save on a fresh HashMap, not on the loaded one
saved_progress_replacing(db, b) ==
    insert_all(insert_all(insert_all(insert_all(insert_all(<<>>,
        b[1], 1), b[2], 2), b[3], 3), b[4], 4), b[5], 5)

\* the five loops of save, stage1 first
saved_progress(db, b) ==
    insert_all(insert_all(insert_all(insert_all(insert_all(db,
        b[1], 1), b[2], 2), b[3], 3), b[4], 4), b[5], 5)

save ==
    /\ pc = "exit"
    /\ progress' = saved_progress(progress, box)
    /\ files' = [files EXCEPT ![path(ProgressDbPath)] = File(save_lines(progress'))]
    /\ last' = Call("save", 0, <<>>, Unit)
    /\ pc' = "done"
    /\ UNCHANGED <<parser, validation, debug_assertions, flashcards, stage0, stage1, stage2, stage3,
                   stage4, stage5, now, answers>>

\* Cardbox::save when File::create fails in db::save: the `expect` on it
\* panics and the file is as it was
save_create_fails ==
    /\ pc = "exit"
    /\ progress' = saved_progress(progress, box)
    /\ last' = Call("save", 0, <<>>, Panic)
    /\ pc' = "panicked"
    /\ UNCHANGED <<parser, validation, debug_assertions, flashcards, files, stage0, stage1, stage2,
                   stage3, stage4, stage5, now, answers>>

\* Cardbox::save when a write fails in db::save.  File::create has truncated
\* the file and only some lines reach it.  When it is a writeln! that fails,
\* db::save returns the Err and the `expect` of Cardbox::save panics; when it
\* is the flush of the BufWriter, which db::save leaves to the drop of
\* `buffered`, the error is dropped and save returns as after a success.
save_write_fails ==
    /\ pc = "exit"
    /\ progress' = saved_progress(progress, box)
    /\ \E written \in (SUBSET save_lines(progress')) \ {save_lines(progress')} :
         files' = [files EXCEPT ![path(ProgressDbPath)] = File(written)]
    /\ \E ret \in {Panic, Unit} :
         /\ last' = Call("save", 0, <<>>, ret)
         /\ pc' = IF ret = Panic THEN "panicked" ELSE "done"
    /\ UNCHANGED <<parser, validation, debug_assertions, flashcards, stage0, stage1, stage2, stage3,
                   stage4, stage5, now, answers>>

(***************************************************************************)
(* The program run again on the same cardbox file: Cardbox::new, which     *)
(* loads the database file as it is now, and init                          *)
(***************************************************************************)
\* the queues of Cardbox::new before init fills them
reopened_unfilled ==
    LET loaded == load(files[path(ProgressDbPath)].lines)
    IN  IF loaded.panic THEN loaded ELSE classify(flashcards, loaded.db, EmptyBox)

\* the queues after Cardbox::new and init, the refill of init reading the
\* clock as `times`
reopened(times) == refill(reopened_unfilled.box, times)

(***************************************************************************)
(* db::clean                                                               *)
(***************************************************************************)
\* the loop of clean with > for >=
retained_after(db, older_than) ==
    [h \in {x \in DOMAIN db : db[x].timestamp_ms > older_than} |-> db[h]]

\* the loop of clean: new_db gets the entries that are not older than
\* older_than
retained(db, older_than) ==
    [h \in {x \in DOMAIN db : db[x].timestamp_ms >= older_than} |-> db[h]]

\* db::clean(fname, older_than), called before the cardbox is created or
\* after it was saved: load, which creates the file when there is none and
\* panics on a line it cannot parse, the loop, and save with its `expect`
clean(fname, older_than) ==
    /\ pc \in {"start", "done"}
    /\ \E loaded \in {IF files[path(fname)].exists
                        THEN load(files[path(fname)].lines) ELSE reads_created_file} :
       LET p == path(fname)
           file == IF files[p].exists THEN files[p] ELSE File({})
           ret == IF loaded = Hangs THEN Hangs
                  ELSE IF loaded.panic THEN Panic ELSE Unit
       IN  /\ files' = [files EXCEPT ![p] =
                          IF ret = Unit
                          THEN File(save_lines(retained(loaded.db, older_than)))
                          ELSE file]
           /\ pc' = CASE ret = Hangs -> "reading"
                      [] ret = Panic -> "panicked"
                      [] OTHER -> pc
           /\ last' = [op |-> "clean", stage |-> 0, times |-> <<>>, ret |-> ret,
                       older_than |-> older_than]
    /\ UNCHANGED <<parser, validation, debug_assertions, flashcards, progress, stage0, stage1, stage2,
                   stage3, stage4, stage5, now, answers>>

(***************************************************************************)
(* The program (main.rs): Cardbox::new, which loads the database; init;    *)
(* then the loop: next, present the card, increase_stage when every line   *)
(* passed and reset_stage otherwise; save when the loop ends.  The user    *)
(* answers at most MaxAnswers cards and then quits.                        *)
(***************************************************************************)
\* the file systems at start-up: at the path the build uses, no file or a
\* file with one of the contents; nothing at the other path, which the build
\* neither reads nor writes
StartFiles(contents) ==
    { [p \in Paths |-> IF p = path(ProgressDbPath) THEN file ELSE Missing] :
        file \in {Missing} \cup {File(lines) : lines \in contents} }

Init ==
    /\ debug_assertions \in BOOLEAN
    /\ flashcards \in CardboxFiles
    /\ files \in StartFiles(DbFiles)
    /\ progress = <<>>
    /\ SetBoxInit
    /\ now = latest(files[path(ProgressDbPath)].lines)
    /\ pc = "start"
    /\ last = Call("main", 0, <<>>, Unit)
    /\ answers = 0
    /\ card_validator = <<>>
    /\ validating = 0
    /\ entered = <<>>
    /\ parser = <<>>

Next ==
    \/ new
    \/ init
    \/ next
    \/ answers < MaxAnswers /\ increase_stage(last.ret.stage)
    \/ answers < MaxAnswers /\ reset_stage(last.ret.stage)
    \/ quit
    \/ save

Spec == Init /\ [][Next]_vars

\* the cooldown of envelope i of stage k of b has elapsed at time t
elapsed(b, k, i, t) == t - b[k][i].timestamp >= COOLDOWN(k) * 1000

\* no cooldown of the stages 2..5 elapses in this step: an envelope whose
\* cooldown has elapsed after it was in its stage, its cooldown elapsed,
\* before it
no_cooldown_elapses ==
    \A k \in 2..5 : \A i \in 1..Len(box'[k]) :
        elapsed(box', k, i, now') =>
            \E j \in 1..Len(box[k]) : box[k][j] = box'[k][i] /\ elapsed(box, k, j, now)

\* main's loop with a user who enters every card correctly and goes on
\* after every card (card_validator.passed(), wait_for_return() false)
answer_correctly ==
    /\ answers < MaxAnswers
    /\ increase_stage(last.ret.stage)
    /\ pc' \in {"loop", "panicked"}

\* the calls of main's loop while no cooldown elapses
next_in_session == next /\ no_cooldown_elapses
answer_in_session == answer_correctly /\ no_cooldown_elapses

\* the session of such a user
NextSession ==
    \/ new
    \/ init
    \/ next_in_session
    \/ answer_in_session

\* a cardbox file of no more cards than the user answers
InitSession == Init /\ Len(flashcards) <= MaxAnswers

\* main is sequential and every call of its loop returns or panics, so the
\* loop goes on while it can
SpecSession ==
    InitSession /\ [][NextSession]_vars
        /\ WF_vars(next_in_session) /\ WF_vars(answer_in_session)

\* the stage a caller may hand to increase_stage and reset_stage: usize
\* values, of which 0 and 6 are no stage
StageArguments == 0..6

\* the cardbox under a caller that answers a presented card with a call of
\* increase_stage or reset_stage on any stage, not only the one next() gave
NextApi ==
    \/ new
    \/ init
    \/ next
    \/ \E current_stage \in StageArguments :
         answers < MaxAnswers /\ increase_stage(current_stage)
    \/ \E current_stage \in StageArguments :
         answers < MaxAnswers /\ reset_stage(current_stage)
    \/ quit
    \/ save

\* its start: as Init, on the shorter cardbox files
InitApi ==
    /\ Init
    /\ Len(flashcards) <= MaxCards - 2

SpecApi == InitApi /\ [][NextApi]_vars

\* a step in which the file system fails an operation of db::load or db::save
IoFailure == new_fails \/ new_skipping_lines \/ save_create_fails \/ save_write_fails

\* the program on a file system that may fail
NextIO ==
    \/ Next
    \/ new_fails
    \/ new_skipping_lines
    \/ save_create_fails
    \/ save_write_fails

\* its start: as Init, on the cardbox files that have no more flashcards
\* than the database has records
InitIO ==
    /\ Init
    /\ Len(flashcards) <= Cardinality(StoreCards)

SpecIO == InitIO /\ [][NextIO]_vars

\* the unix times a caller hands to clean
Cutoffs == TimePoints

\* the program and db::clean on database files of any content, of which
\* a line may be unreadable
NextDb ==
    \/ Next
    \/ new_skipping_lines
    \/ \E older_than \in Cutoffs : clean(ProgressDbPath, older_than)

\* its start: as InitIO, the database having also the files with a line
\* that is not three decimal fields
InitDb ==
    /\ debug_assertions \in BOOLEAN
    /\ flashcards \in {f \in CardboxFiles : Len(f) <= Cardinality(StoreCards)}
    /\ files \in StartFiles(DbFiles \cup MalformedDbFiles)
    /\ progress = <<>>
    /\ SetBoxInit
    /\ now = latest(files[path(ProgressDbPath)].lines)
    /\ pc = "start"
    /\ last = Call("main", 0, <<>>, Unit)
    /\ answers = 0
    /\ card_validator = <<>>
    /\ validating = 0
    /\ entered = <<>>
    /\ parser = <<>>

SpecDb == InitDb /\ [][NextDb]_vars

(***************************************************************************)
(* Flashcard::get_hash on any two flashcards of one subject.               *)
(***************************************************************************)
\* the texts of the lines and line parts
HashTexts == {<<1>>, <<1, 1>>}

\* the sequences of 1..MaxLines elements of a set
Lists(set) == UNION { [1..n -> set] : n \in 1..MaxLines }

RECURSIVE part_index(_, _)
\* the third field of the j-th LinePart of a line: where the part starts,
\* the parts being one whitespace apart
part_index(parts, j) ==
    IF j = 1 THEN 0 ELSE part_index(parts, j - 1) + Len(parts[j - 1][1]) + 1

\* a line of a FillTheBlank back: LinePart(text, blank, index) per part
LineWithBlanks(parts) ==
    [j \in 1..Len(parts) |-> <<parts[j][1], parts[j][2], part_index(parts, j)>>]

\* FlashcardBack: WriteTheLine(lines) or FillTheBlank(lines), the latter
\* with one line here
FlashcardBacks ==
    { [kind |-> "WriteTheLine", lines |-> lines] : lines \in Lists(HashTexts) }
    \cup
    { [kind |-> "FillTheBlank", lines |-> <<LineWithBlanks(parts)>>] :
        parts \in Lists(HashTexts \X BOOLEAN) }

\* the flashcards of one subject, with one of two faces, with or without a
\* note
HashedFlashcards ==
    [subject : {<<1>>}, face : {<<1>>, <<2>>}, back : FlashcardBacks, note : {<<>>, <<7>>}]

\* the u64 values a call returned
Hashes(values) == [kind |-> "u64", values |-> values]

\* get_hash called on each of the two flashcards, for the first time or again
hash_flashcards ==
    /\ pc \in {"start", "hashed"}
    /\ pc' = "hashed"
    /\ last' = Call("get_hash", IF pc = "start" THEN 1 ELSE 2, <<>>,
                    Hashes([i \in 1..Len(flashcards) |-> get_hash(flashcards[i])]))
    /\ UNCHANGED <<parser, validation, debug_assertions, flashcards, files, progress, stage0, stage1,
                   stage2, stage3, stage4, stage5, now, answers>>

InitHash ==
    /\ debug_assertions \in BOOLEAN
    /\ flashcards \in [1..2 -> HashedFlashcards]
    /\ files = [p \in Paths |-> Missing]
    /\ progress = <<>>
    /\ SetBoxInit
    /\ now = 0
    /\ pc = "start"
    /\ last = Call("main", 0, <<>>, Unit)
    /\ answers = 0
    /\ card_validator = <<>>
    /\ validating = 0
    /\ entered = <<>>
    /\ parser = <<>>

NextHash == hash_flashcards

SpecHash == InitHash /\ [][NextHash]_vars

(***************************************************************************)
(* validator.rs: InputValidator, one per line of the back, and             *)
(* FlashcardValidator, the list of them.  Indexes run from 0 as in the     *)
(* code; the k-th element of a Vec is the (k+1)-th of its sequence here.   *)
(***************************************************************************)
\* HintMode
Inactive == [kind |-> "Inactive"]
Active(index) == [kind |-> "Active", index |-> index]

\* InputValidator::new(expected)
InputValidator(expected) ==
    [expected  |-> expected,
     received  |-> [k \in 1..Len(expected) |-> FALSE],
     index     |-> 0,
     length    |-> Len(expected),
     hint_mode |-> Inactive,
     passed    |-> TRUE]

\* Flashcard::get_lines_to_validate: every line of a WriteTheLine back, the
\* blanks of every line of a FillTheBlank back
get_lines_to_validate(flashcard) ==
    IF flashcard.back.kind = "WriteTheLine" THEN flashcard.back.lines
    ELSE [k \in 1..Len(flashcard.back.lines) |->
            LET line_parts == flashcard.back.lines[k]
            IN  Concat([j \in 1..Len(line_parts) |->
                          IF line_parts[j][2] THEN line_parts[j][1] ELSE <<>>])]

\* FlashcardValidator::new(flashcard)
FlashcardValidator(flashcard) ==
    LET lines_to_validate == get_lines_to_validate(flashcard)
    IN  [validators |-> [k \in 1..Len(lines_to_validate) |->
                           InputValidator(lines_to_validate[k])],
         index      |-> 0,
         length     |-> Len(lines_to_validate)]

\* what a call on a validator leaves and returns
Outcome(validator, ret) == [validator |-> validator, ret |-> ret]

Bool(value) == [kind |-> "bool", value |-> value]
SomeChar(c) == [kind |-> "Some", value |-> c]

\* a check that records the result and leaves the index where it is
check_in_place(v, c) ==
    IF v.index >= v.length THEN Outcome(v, Bool(FALSE))
    ELSE LET is_valid == v.expected[v.index + 1] = c
         IN  Outcome([v EXCEPT !.received[v.index + 1] = is_valid], Bool(is_valid))

\* InputValidator::check
check(v, c) ==
    IF v.index >= v.length THEN Outcome(v, Bool(FALSE))
    ELSE LET is_valid == v.expected[v.index + 1] = c
         IN  Outcome([v EXCEPT !.index = v.index + 1,
                               !.received[v.index + 1] = is_valid],
                     Bool(is_valid))

\* a reset that moves the index back and leaves the flags as they are
reset_keeping_flags(v) == Outcome([v EXCEPT !.index = 0], Unit)

\* InputValidator::reset
reset(v) ==
    Outcome([v EXCEPT !.index = 0, !.received = [k \in 1..v.length |-> FALSE]], Unit)

\* an undo that moves the index back and leaves the flags as they are
undo_keeping_flags(v, num) ==
    IF v.index = 0 THEN Outcome(v, Unit)
    ELSE IF num > v.index THEN Outcome([v EXCEPT !.index = 0], Panic)
    ELSE Outcome([v EXCEPT !.index = v.index - num], Unit)

\* InputValidator::undo: nothing at index 0; else num times `index -= 1;
\* received[index] = false`.  When num is more than index, the subtraction
\* at index 0 overflows: a debug build panics there, a release build wraps
\* the index to 2^64 - 1 (written -1) and panics on received[index]
undo(v, num) ==
    IF v.index = 0 THEN Outcome(v, Unit)
    ELSE IF num > v.index
    THEN Outcome([v EXCEPT !.index = IF debug_assertions THEN 0 ELSE -1,
                           !.received = [k \in 1..v.length |->
                                           IF k <= v.index THEN FALSE ELSE v.received[k]]],
                 Panic)
    ELSE Outcome([v EXCEPT !.index = v.index - num,
                           !.received = [k \in 1..v.length |->
                                           IF k > v.index - num /\ k <= v.index
                                           THEN FALSE ELSE v.received[k]]],
                 Unit)

\* InputValidator::happy
happy(v) == \A k \in 1..Len(v.received) : v.received[k]

\* InputValidator::accepts
accepts(v) == v.index < v.length

\* InputValidator::peek.  Inactive: the hint starts at the index, and
\* expected[index] panics when the index is the length.  Active(index):
\* passed is cleared; `index < length - 1` is on usize, so with length 0 a
\* debug build panics on the subtraction and a release build wraps it, goes
\* on and panics on expected[index + 1]
peek(v) ==
    IF v.hint_mode = Inactive
    THEN LET hinting == [v EXCEPT !.hint_mode = Active(v.index)]
         IN  IF v.index < v.length
             THEN Outcome(hinting, SomeChar(v.expected[v.index + 1]))
             ELSE Outcome(hinting, Panic)
    ELSE LET index == v.hint_mode.index
             failed == [v EXCEPT !.passed = FALSE]
         IN  IF v.length = 0
             THEN IF debug_assertions THEN Outcome(failed, Panic)
                  ELSE Outcome([failed EXCEPT !.hint_mode = Active(index + 1)], Panic)
             ELSE IF index < v.length - 1
             THEN Outcome([failed EXCEPT !.hint_mode = Active(index + 1)],
                          SomeChar(v.expected[index + 2]))
             ELSE Outcome(failed, None)

\* InputValidator::end_peek
end_peek(v) == Outcome([v EXCEPT !.hint_mode = Inactive], Unit)

\* InputValidator::passed
passed(v) == v.passed

\* InputValidator::first_incorrect: the position of the first flag that is
\* false
SomeIndex(index) == [kind |-> "Some", value |-> index]

first_incorrect(v) ==
    LET incorrect == {k \in 1..Len(v.received) : ~v.received[k]}
    IN  IF incorrect = {} THEN None
        ELSE SomeIndex((CHOOSE k \in incorrect : \A j \in incorrect : k <= j) - 1)

\* one call of a method of InputValidator
MethodCall(op, argument) == [op |-> op, argument |-> argument]

apply(v, call) ==
    CASE call.op = "check" -> check(v, call.argument)
      [] call.op = "undo" -> undo(v, call.argument)
      [] call.op = "peek" -> peek(v)
      [] call.op = "happy" -> Outcome(v, Bool(happy(v)))
      [] call.op = "passed" -> Outcome(v, Bool(passed(v)))
      [] call.op = "first_incorrect" -> Outcome(v, first_incorrect(v))

\* what a sequence of calls returns, up to the first call that panics
RECURSIVE results(_, _)
results(v, calls) ==
    IF calls = <<>> THEN <<>>
    ELSE LET outcome == apply(v, Head(calls))
         IN  IF outcome.ret = Panic THEN <<Panic>>
             ELSE <<outcome.ret>> \o results(outcome.validator, Tail(calls))

\* FlashcardValidator::happy
all_happy(fv) == \A k \in 1..Len(fv.validators) : happy(fv.validators[k])

\* FlashcardValidator::passed
all_passed(fv) == \A k \in 1..Len(fv.validators) : passed(fv.validators[k])

\* the characters of the lines and of the keyboard
Chars == {1, 2}

\* the lines to validate: none or some characters
ExpectedLines == {<<>>, <<1>>, <<1, 2>>}

\* the numbers a caller hands to undo
UndoCounts == 0..3

\* the flashcards that are validated: a WriteTheLine back of one line or of
\* two, and a FillTheBlank back whose first part is the blank
ValidatedFlashcards ==
    { [subject |-> <<1>>, face |-> <<1>>, back |-> back, note |-> <<>>] :
        back \in { [kind |-> "WriteTheLine", lines |-> <<line>>] : line \in ExpectedLines }
                 \cup { [kind |-> "WriteTheLine", lines |-> <<(<<1>>), <<1, 2>> >>],
                        [kind |-> "FillTheBlank",
                         lines |-> <<LineWithBlanks(<< <<(<<1, 2>>), TRUE>>,
                                                      <<(<<1>>), FALSE>> >>)>>] } }

\* the validator main's loop is at
current == card_validator.validators[validating + 1]

\* a call on the current validator: what it leaves, what it returned, and
\* the input line after it
called(op, argument, outcome, line) ==
    /\ card_validator' = [card_validator EXCEPT !.validators[validating + 1] =
                                                   outcome.validator]
    /\ entered' = [entered EXCEPT ![validating + 1] = line]
    /\ last' = [op |-> op, stage |-> 0, times |-> <<>>, ret |-> outcome.ret,
                argument |-> argument, on |-> validating]
    /\ pc' = IF outcome.ret = Panic THEN "panicked" ELSE pc
    /\ UNCHANGED <<parser, debug_assertions, flashcards, files, progress, stage0, stage1,
                   stage2, stage3, stage4, stage5, now, answers, validating>>

\* the characters left on a line of n characters after num are taken back
taken_back(line, num) == SubSeq(line, 1, IF num > Len(line) THEN 0 ELSE Len(line) - num)

\* a character is typed: check, and the character is on the line when the
\* validator took it
on_check(c) ==
    /\ pc = "validating"
    /\ validating < card_validator.length
    /\ called("check", c, check(current, c),
              IF current.index < current.length
              THEN Append(entered[validating + 1], c) ELSE entered[validating + 1])

\* characters are taken back: undo(num)
on_undo(num) ==
    /\ pc = "validating"
    /\ validating < card_validator.length
    /\ called("undo", num, undo(current, num),
              IF current.index = 0 THEN entered[validating + 1]
              ELSE taken_back(entered[validating + 1], num))

on_reset ==
    /\ pc = "validating"
    /\ validating < card_validator.length
    /\ called("reset", 0, reset(current), <<>>)

on_peek ==
    /\ pc = "validating"
    /\ validating < card_validator.length
    /\ called("peek", 0, peek(current), entered[validating + 1])

on_end_peek ==
    /\ pc = "validating"
    /\ validating < card_validator.length
    /\ called("end_peek", 0, end_peek(current), entered[validating + 1])

\* main's `for (i, mut input_validator) in ...`: the next validator
next_validator ==
    /\ pc = "validating"
    /\ validating < card_validator.length
    /\ validating' = validating + 1
    /\ UNCHANGED <<parser, debug_assertions, flashcards, files, progress, stage0, stage1,
                   stage2, stage3, stage4, stage5, now, pc, last, answers,
                   card_validator, entered>>

\* main after the loop: `if card_validator.passed()`
on_passed ==
    /\ pc = "validating"
    /\ validating = card_validator.length
    /\ pc' = "validated"
    /\ last' = [op |-> "passed", stage |-> 0, times |-> <<>>,
                ret |-> Bool(all_passed(card_validator)),
                argument |-> 0, on |-> validating]
    /\ UNCHANGED <<parser, validation, debug_assertions, flashcards, files, progress, stage0,
                   stage1, stage2, stage3, stage4, stage5, now, answers>>

\* flashcard.get_validator() on the presented card
InitValidator ==
    /\ debug_assertions \in BOOLEAN
    /\ \E flashcard \in ValidatedFlashcards :
         /\ flashcards = <<flashcard>>
         /\ card_validator = FlashcardValidator(flashcard)
    /\ files = [p \in Paths |-> Missing]
    /\ progress = <<>>
    /\ SetBoxInit
    /\ now = 0
    /\ pc = "validating"
    /\ last = Call("get_validator", 0, <<>>, Unit)
    /\ answers = 0
    /\ validating = 0
    /\ entered = [k \in 1..card_validator.length |-> <<>>]
    /\ parser = <<>>

NextValidator ==
    \/ \E c \in Chars : on_check(c)
    \/ \E num \in UndoCounts : on_undo(num)
    \/ on_reset
    \/ on_peek
    \/ on_end_peek
    \/ next_validator
    \/ on_passed

SpecValidator == InitValidator /\ [][NextValidator]_vars

(***************************************************************************)
(* cardbox_parser: the text of a cardbox file is a sequence of lines, a   *)
(* line a sequence of characters.                                          *)
(***************************************************************************)
MARKUP_FACE == "#"
MARKUP_COMMENT == "%"
MARKUP_NOTE == "!"
MARKUP_ESCAPE == "\\"
MARKUP == {MARKUP_FACE, MARKUP_COMMENT, MARKUP_NOTE}

\* the number of '#' of the face line of each type of flashcard
TYPE_WRITE_THE_LINE == 1
TYPE_FILL_THE_BLANK == 2

\* char::is_whitespace, is_uppercase, is_alphanumeric and
\* str::to_lowercase on the characters of the model
is_whitespace(c) == c = " "
is_uppercase(c) == c = "A"
is_alphanumeric(c) == c \in {"a", "A"}
to_lowercase(text) == [i \in 1..Len(text) |-> IF text[i] = "A" THEN "a" ELSE text[i]]

RECURSIVE trim_start(_)
trim_start(text) ==
    IF text # <<>> /\ is_whitespace(Head(text)) THEN trim_start(Tail(text)) ELSE text

RECURSIVE trim_end(_)
trim_end(text) ==
    IF text # <<>> /\ is_whitespace(text[Len(text)])
    THEN trim_end(SubSeq(text, 1, Len(text) - 1)) ELSE text

\* str::trim
trim(text) == trim_end(trim_start(text))

RECURSIVE take_while_face(_)
\* line.chars().take_while(|c| c == &MARKUP_FACE).count()
take_while_face(text) ==
    IF text # <<>> /\ Head(text) = MARKUP_FACE THEN 1 + take_while_face(Tail(text)) ELSE 0

RECURSIVE split_whitespace(_)
\* str::split_whitespace: the parts between runs of whitespace
split_whitespace(text) ==
    LET rest == trim_start(text)
    IN  IF rest = <<>> THEN <<>>
        ELSE LET ends == {i \in 1..Len(rest) : is_whitespace(rest[i])}
                 n == IF ends = {} THEN Len(rest)
                      ELSE (CHOOSE i \in ends : \A j \in ends : i <= j) - 1
             IN  <<SubSeq(rest, 1, n)>> \o split_whitespace(SubSeq(rest, n + 1, Len(rest)))

\* Option::Some of a value
SomeOf(value) == [kind |-> "Some", value |-> value]

\* a can_move_to that lets a face line follow a face line
can_move_to_from_face(state, next_state) ==
    CASE state = "Init" -> next_state \in {"Init", "Face"}
      [] state = "Face" -> next_state \in {"Init", "Face", "Back"}
      [] state = "Back" -> next_state \in {"Init", "Face", "Back", "Note"}
      [] state = "Note" -> next_state \in {"Init", "Face"}

\* ParserState::can_move_to
can_move_to(state, next_state) ==
    CASE state = "Init" -> next_state \in {"Init", "Face"}
      [] state = "Face" -> next_state \in {"Init", "Back"}
      [] state = "Back" -> next_state \in {"Init", "Face", "Back", "Note"}
      [] state = "Note" -> next_state \in {"Init", "Face"}

\* ParserState::can_build
can_build(state, next_state) ==
    state \in {"Back", "Note"} /\ next_state \in {"Init", "Face"}

\* FlashcardFactory::new
FlashcardFactory(name) == [subject |-> name, face |-> None, back |-> None, note |-> None]

\* FlashcardFactory::can_build
factory_can_build(factory) == factory.face # None /\ ~(factory.back = None)

\* FlashcardFactory::build: the flashcard, and the factory left behind
build(factory) ==
    [flashcard |-> [subject |-> factory.subject, face |-> factory.face.value,
                    back |-> factory.back.value, note |-> factory.note],
     factory   |-> [factory EXCEPT !.face = None, !.back = None, !.note = None]]

\* the locals of parse before its loop
Parsing(buff, name) ==
    [buff |-> buff, position |-> 0, flashcards |-> <<>>, state |-> "Init",
     factory |-> FlashcardFactory(name), card_back |-> None, panicked |-> FALSE]

panics(p) == [p EXCEPT !.panicked = TRUE]

\* the MARKUP_FACE arm: build the flashcard before when there is one, move to
\* Face, take the type from the number of '#'
face_line(p, line) ==
    LET built == IF can_build(p.state, "Face")
                 THEN LET made == build([p.factory EXCEPT !.back = SomeOf(p.card_back.value)])
                      IN  [p EXCEPT !.card_back = None, !.factory = made.factory,
                                    !.flashcards = Append(p.flashcards, made.flashcard)]
                 ELSE p
        count == take_while_face(line)
        face_text == trim(SubSeq(line, count + 1, Len(line)))
        faced == [built EXCEPT !.state = "Face", !.factory.face = SomeOf(face_text)]
    IN  IF can_build(p.state, "Face") /\ p.card_back = None THEN panics(p)
        ELSE IF ~can_move_to(built.state, "Face") THEN panics(built)
        ELSE IF Len(line) < 2 THEN panics([built EXCEPT !.state = "Face"])
        ELSE IF count = TYPE_WRITE_THE_LINE
        THEN [faced EXCEPT !.card_back = SomeOf([kind |-> "WriteTheLine", lines |-> <<>>])]
        ELSE IF count = TYPE_FILL_THE_BLANK
        THEN [faced EXCEPT !.card_back = SomeOf([kind |-> "FillTheBlank", lines |-> <<>>])]
        ELSE panics(faced)

\* the MARKUP_NOTE arm
note_line(p, line) ==
    IF ~can_move_to(p.state, "Note") THEN panics(p)
    ELSE [p EXCEPT !.state = "Note",
                   !.factory.note = SomeOf(trim(split(line, MARKUP_NOTE)[2]))]

\* the parts of a line of a FillTheBlank back
line_parts(data) ==
    LET words == split_whitespace(data)
        blank(part) == \A i \in 1..Len(part) :
                           is_uppercase(part[i]) \/ ~is_alphanumeric(part[i])
    IN  LineWithBlanks([j \in 1..Len(words) |->
                          <<IF blank(words[j]) THEN to_lowercase(words[j]) ELSE words[j],
                            blank(words[j])>>])

\* the last arm: a line of the back
back_line(p, line) ==
    LET data == IF Head(line) = MARKUP_ESCAPE /\ Len(line) >= 2 /\ line[2] \in MARKUP
                THEN Tail(line) ELSE line
        pushed == IF p.card_back.value.kind = "WriteTheLine"
                  THEN [p EXCEPT !.card_back.value.lines = Append(@, data)]
                  ELSE [p EXCEPT !.card_back.value.lines = Append(@, line_parts(data))]
    IN  IF p.card_back = None THEN panics(p)
        ELSE IF ~can_move_to(p.state, "Back") THEN panics(pushed)
        ELSE [pushed EXCEPT !.state = "Back"]

\* the body of the loop of parse for one line of the reader
parse_line_of(p, text) ==
    LET line == trim(text)
        read == [p EXCEPT !.position = p.position + 1]
    IN  IF line = <<>> THEN read
        ELSE IF Head(line) = MARKUP_FACE THEN face_line(read, line)
        ELSE IF Head(line) = MARKUP_NOTE THEN note_line(read, line)
        ELSE IF Head(line) = MARKUP_COMMENT THEN read
        ELSE back_line(read, line)

\* parse after its loop: the back in the making goes to the factory, and
\* the factory builds the last flashcard when it can
parse_end(p) ==
    IF p.card_back = None THEN panics(p)
    ELSE LET factory == [p.factory EXCEPT !.back = SomeOf(p.card_back.value)]
         IN  IF factory_can_build(factory)
             THEN [p EXCEPT !.card_back = None, !.factory = build(factory).factory,
                            !.flashcards = Append(p.flashcards, build(factory).flashcard)]
             ELSE [p EXCEPT !.card_back = None, !.factory = factory]

\* Vec<Flashcard>, the value parse returns
Vec(elements) == [kind |-> "Vec", value |-> elements]

RECURSIVE parse_from(_)
parse_from(p) ==
    IF p.panicked THEN Panic
    ELSE IF p.position < Len(p.buff) THEN parse_from(parse_line_of(p, p.buff[p.position + 1]))
    ELSE LET ended == parse_end(p)
         IN  IF ended.panicked THEN Panic ELSE Vec(ended.flashcards)

\* cardbox_parser::parse
parse(buff, name) == parse_from(Parsing(buff, name))

\* the lines of the cardbox files that are parsed
CardboxLines ==
    { <<>>, <<" ">>,
      <<MARKUP_COMMENT, "a">>,
      <<MARKUP_FACE, " ", "a">>,
      <<" ", MARKUP_FACE, MARKUP_FACE, "a">>,
      <<MARKUP_FACE>>,
      <<MARKUP_FACE, MARKUP_FACE, MARKUP_FACE, "a">>,
      <<MARKUP_NOTE, " ", "a">>,
      <<"a">>,
      <<" ", "A", " ", "a">>,
      <<MARKUP_ESCAPE, MARKUP_FACE>> }

\* the most lines of a cardbox file
MaxInput == 4

CardboxTexts == UNION { [1..n -> CardboxLines] : n \in 0..MaxInput }

\* one turn of the loop of parse
for_line ==
    /\ pc = "parsing"
    /\ parser.position < Len(parser.buff)
    /\ parser' = parse_line_of(parser, parser.buff[parser.position + 1])
    /\ pc' = IF parser'.panicked THEN "panicked" ELSE pc
    /\ last' = Call("parse", 0, <<>>, IF parser'.panicked THEN Panic ELSE Unit)
    /\ UNCHANGED <<validation, debug_assertions, flashcards, files, progress, stage0,
                   stage1, stage2, stage3, stage4, stage5, now, answers>>

\* the end of parse: the flashcards are returned, to Cardbox::init in main
parse_returns ==
    /\ pc = "parsing"
    /\ parser.position = Len(parser.buff)
    /\ parser' = parse_end(parser)
    /\ pc' = IF parser'.panicked THEN "panicked" ELSE "parsed"
    /\ last' = Call("parse", 0, <<>>,
                    IF parser'.panicked THEN Panic ELSE Vec(parser'.flashcards))
    /\ flashcards' = IF parser'.panicked THEN flashcards ELSE parser'.flashcards
    /\ UNCHANGED <<validation, debug_assertions, files, progress, stage0,
                   stage1, stage2, stage3, stage4, stage5, now, answers>>

InitParser ==
    /\ debug_assertions \in BOOLEAN
    /\ flashcards = <<>>
    /\ files = [p \in Paths |-> Missing]
    /\ progress = <<>>
    /\ SetBoxInit
    /\ now = 0
    /\ pc = "parsing"
    /\ last = Call("parse_from_file", 0, <<>>, Unit)
    /\ answers = 0
    /\ card_validator = <<>>
    /\ validating = 0
    /\ entered = <<>>
    /\ \E buff \in CardboxTexts : parser = Parsing(buff, <<"a">>)

NextParser == for_line \/ parse_returns

SpecParser == InitParser /\ [][NextParser]_vars

\* the same program on a cardbox file of twenty flashcards, each with its
\* own back, and an empty progress database
Init11 ==
    /\ debug_assertions \in BOOLEAN
    /\ flashcards = [i \in 1..20 |-> Flashcard(i, FALSE)]
    /\ files \in StartFiles({{}})
    /\ progress = <<>>
    /\ SetBoxInit
    /\ now = 0
    /\ pc = "start"
    /\ last = Call("main", 0, <<>>, Unit)
    /\ answers = 0
    /\ card_validator = <<>>
    /\ validating = 0
    /\ entered = <<>>
    /\ parser = <<>>

Spec11 == Init11 /\ [][Next]_vars

(***************************************************************************)
(* Vocabulary of the properties.                                           *)
(***************************************************************************)
\* init has filled the queues
Initialised ==
    /\ pc \notin {"start", "new", "reading"}
    /\ ~ (last.op \in {"new", "init"} /\ last.ret = Panic)

\* this step is a call of op
Called(op) == last' # last /\ last'.op = op

\* the front of stage k of b is due at time t: its cooldown, in
\* milliseconds, has elapsed since it entered the stage
Due(b, k, t) == b[k] # <<>> /\ t - Head(b[k]).timestamp >= COOLDOWN(k) * 1000

Highest(stages) == CHOOSE k \in stages : \A j \in stages : j <= k

\* the flashcards of a queue of envelopes
flashcards_of(envelopes) == [i \in 1..Len(envelopes) |-> envelopes[i].flashcard]

\* the hashes of a queue of envelopes
hashes_of(envelopes) == {envelopes[i].hash : i \in 1..Len(envelopes)}

\* every flashcard the cardbox holds, stage0 first
all_flashcards(b) ==
    b[0] \o flashcards_of(b[1]) \o flashcards_of(b[2]) \o flashcards_of(b[3])
         \o flashcards_of(b[4]) \o flashcards_of(b[5])

\* how often x occurs in a sequence
Count(seq, x) == Cardinality({i \in 1..Len(seq) : seq[i] = x})

(***************************************************************************)
(* C1.  next() returns the front card of the highest stage whose front is  *)
(* due, together with that stage, returns None exactly when no stage has a *)
(* due front, and leaves the six queues, their order and every timestamp   *)
(* as they were.  (Only fronts are tested: an envelope behind a front that *)
(* is not due is never returned.)                                          *)
(***************************************************************************)
C1_NextReturnsHighestDueFront ==
    [][Called("next") =>
         /\ box' = box
         /\ LET t == last'.times[1]
                due == {k \in 1..5 : Due(box, k, t)}
            IN  IF due = {}
                THEN last'.ret = None
                ELSE last'.ret = Some(Head(box[Highest(due)]).flashcard, Highest(due))]_vars

(***************************************************************************)
(* C2.  After init and any calls of next, increase_stage, reset_stage and  *)
(* save, the six queues together hold exactly the flashcards parsed at     *)
(* init, each as often as the file has it.                                 *)
(***************************************************************************)
C2_NoCardDroppedOrDuplicated ==
    Initialised =>
        /\ size(box) = Len(flashcards)
        /\ \A i \in 1..Len(flashcards) :
             Count(all_flashcards(box), flashcards[i]) = Count(flashcards, flashcards[i])

C2_Witness ==
    /\ pc = "done"
    /\ answers = MaxAnswers
    /\ Len(flashcards) > INITIAL_QUEUE_SIZE
    /\ Len(stage0) < Len(flashcards) - INITIAL_QUEUE_SIZE
    /\ stage1 # <<>>
    /\ stage2 # <<>>

(***************************************************************************)
(* C3.  A hash occurs in at most one of the queues stage1..stage5, and no  *)
(* flashcard of stage0 has a hash that is a key of the progress map.       *)
(***************************************************************************)
C3_HashInOneQueue ==
    Initialised =>
        /\ \A j \in 1..5, k \in 1..5 :
             j # k => hashes_of(box[j]) \cap hashes_of(box[k]) = {}
        /\ \A i \in 1..Len(stage0) : get_hash(stage0[i]) \notin DOMAIN progress

(***************************************************************************)
(* C4.  increase_stage(k) takes the front envelope of stage k, stamps it   *)
(* with the current time and appends it to stage k+1, or to stage5 itself  *)
(* when k = 5.  After k = 1 the refill moves the first flashcards of       *)
(* stage0, in order, to the back of stage1.  Nothing else changes queue,   *)
(* order or timestamp.                                                     *)
(***************************************************************************)
C4_IncreaseStageMovesFront ==
    [][(Called("increase_stage") /\ last'.ret = Unit) =>
         LET k == last'.stage
             target == IF k = 5 THEN 5 ELSE k + 1
             moved == [Head(box[k]) EXCEPT !.timestamp = last'.times[1]]
             refills == Len(last'.times) - 1
         IN  /\ k \in 1..5
             /\ box[k] # <<>>
             /\ IF k = 5
                THEN stage5' = Append(Tail(stage5), moved)
                ELSE box'[target] = Append(box[target], moved)
             /\ k \in 2..4 => box'[k] = Tail(box[k])
             /\ \A j \in 1..5 : j \notin {k, target} => box'[j] = box[j]
             /\ IF k = 1
                THEN /\ refills <= Len(stage0)
                     /\ stage0' = SubSeq(stage0, refills + 1, Len(stage0))
                     /\ stage1' = Tail(stage1) \o
                            [i \in 1..refills |->
                                 Envelope(stage0[i], get_hash(stage0[i]), last'.times[i + 1])]
                ELSE /\ refills = 0
                     /\ stage0' = stage0]_vars

C4_Witness ==
    /\ last.op = "increase_stage"
    /\ last.stage = 5
    /\ last.ret = Unit
    /\ Len(stage5) = 2
    /\ stage5[1].timestamp < stage5[2].timestamp

(***************************************************************************)
(* C5.  reset_stage(k), k in 1..5, takes the front envelope of stage k,    *)
(* stamps it with the current time and appends it to stage1; nothing else  *)
(* changes queue, order or timestamp.                                      *)
(***************************************************************************)
C5_ResetStageMovesFrontToStage1 ==
    [][(Called("reset_stage") /\ last'.ret = Unit) =>
         LET k == last'.stage
             moved == [Head(box[k]) EXCEPT !.timestamp = last'.times[1]]
         IN  /\ k \in 1..5
             /\ box[k] # <<>>
             /\ Len(last'.times) = 1
             /\ IF k = 1
                THEN stage1' = Append(Tail(stage1), moved)
                ELSE /\ stage1' = Append(stage1, moved)
                     /\ box'[k] = Tail(box[k])
             /\ \A j \in 0..5 : j \notin {1, k} => box'[j] = box[j]]_vars

C5_Witness ==
    /\ last.op = "reset_stage"
    /\ last.stage = 5
    /\ last.ret = Unit
    /\ Len(stage1) > 1
    /\ stage5 # <<>>

(***************************************************************************)
(* C6.  As claimed: after init and after every increase_stage and          *)
(* reset_stage call, stage1 holds at most INITIAL_QUEUE_SIZE envelopes.    *)
(***************************************************************************)
C6_Stage1Bounded == Initialised => Len(stage1) <= INITIAL_QUEUE_SIZE

\* the flashcards of the file that have no record in the progress map
unrecorded ==
    LET fresh(flashcard) == get_hash(flashcard) \notin DOMAIN progress
    IN  SelectSeq(flashcards, fresh)

\* how many flashcards this step takes out of stage0 (init fills stage0
\* with the unrecorded flashcards first)
taken_from_stage0 ==
    IF pc = "new" THEN Len(unrecorded) - Len(stage0') ELSE Len(stage0) - Len(stage0')

(***************************************************************************)
(* C6, for the refill.  INITIAL_QUEUE_SIZE bounds the refill: a call that *)
(* moves a flashcard from stage0 to stage1 (init, increase_stage(1))       *)
(* leaves at most INITIAL_QUEUE_SIZE envelopes in stage1, and reset_stage  *)
(* moves none.  Envelopes loaded from the database or sent back by         *)
(* reset_stage can take stage1 beyond INITIAL_QUEUE_SIZE.                  *)
(***************************************************************************)
C6_RefillBounded ==
    [][/\ taken_from_stage0 >= 0
       /\ taken_from_stage0 > 0 =>
            /\ Len(stage1') <= INITIAL_QUEUE_SIZE
            /\ last'.op \in {"init", "increase_stage"}]_vars

C6_Witness ==
    /\ last.op = "increase_stage"
    /\ last.stage = 1
    /\ Len(last.times) = 2
    /\ Len(stage1) = INITIAL_QUEUE_SIZE
    /\ answers > 1

(***************************************************************************)
(* C7.  Whenever next() tests the front of a stage, the test as coded      *)
(* (timestamp <= current_time - cooldown * 1000 on u64) does not overflow  *)
(* and passes exactly when current_time - timestamp >= cooldown * 1000.    *)
(***************************************************************************)
\* the stages whose front the last call of next tested
tested_stages ==
    {k \in 1..5 : box[k] # <<>> /\ (last.ret.kind = "Some" => k >= last.ret.stage)}

C7_DueTestIsExact ==
    last.op = "next" =>
        /\ last.ret # Panic
        /\ \A k \in tested_stages :
             LET current_time == last.times[1]
                 limit == cooldown_start(current_time, k)
             IN  /\ ~ sub_overflows(current_time, COOLDOWN(k) * 1000)
                 /\ limit # Panic
                 /\ front_passes(Head(box[k]), limit.value) <=> Due(box, k, current_time)

(***************************************************************************)
(* C8.  A card that increase_stage(1) moved to stage 2 is not returned by  *)
(* next() before its stage-2 cooldown has elapsed.  (With an empty         *)
(* progress map every envelope of stage2 was moved there by                *)
(* increase_stage(1) in this session.)                                     *)
(***************************************************************************)
C8_NotReturnedBeforeCooldown ==
    (/\ DOMAIN progress = {}
     /\ last.op = "next"
     /\ last.ret.kind = "Some"
     /\ last.ret.stage = 2)
    => last.times[1] - Head(stage2).timestamp >= STAGE2_COOLDOWN * 1000

(***************************************************************************)
(* C9.  init puts every flashcard with a record (k, t) into stage k with   *)
(* timestamp t, in file order within the stage, and every flashcard        *)
(* without a record into stage0 in file order; the refill then moves the   *)
(* first of these to the back of stage1, stamped with the current time.    *)
(***************************************************************************)
\* the envelopes init makes of the flashcards recorded at stage k
recorded(k) ==
    LET at_k(flashcard) ==
            /\ get_hash(flashcard) \in DOMAIN progress
            /\ progress[get_hash(flashcard)].index = k
        found == SelectSeq(flashcards, at_k)
    IN  [i \in 1..Len(found) |->
            Envelope(found[i], get_hash(found[i]),
                     progress[get_hash(found[i])].timestamp_ms)]

C9_InitPlacesByRecord ==
    (last.op = "init" /\ last.ret = Unit) =>
        LET refills == Len(last.times)
        IN  /\ \A k \in 2..5 : box[k] = recorded(k)
            /\ refills <= Len(unrecorded)
            /\ stage1 = recorded(1) \o
                   [i \in 1..refills |->
                        Envelope(unrecorded[i], get_hash(unrecorded[i]), last.times[i])]
            /\ stage0 = SubSeq(unrecorded, refills + 1, Len(unrecorded))

C9_Witness ==
    /\ last.op = "init"
    /\ last.ret = Unit
    /\ Len(stage3) = 3
    /\ stage1 # <<>>
    /\ stage3[1].timestamp > stage3[2].timestamp

(***************************************************************************)
(* C10.  After init with N flashcards and an empty database the queues     *)
(* hold N flashcards: the first min(N, INITIAL_QUEUE_SIZE) of the file, in *)
(* order, in stage1, the others in stage0, and none in stages 2..5.        *)
(***************************************************************************)
C10_InitWithEmptyStore ==
    (last.op = "init" /\ DOMAIN progress = {}) =>
        LET N == Len(flashcards)
            filled == IF N < INITIAL_QUEUE_SIZE THEN N ELSE INITIAL_QUEUE_SIZE
        IN  /\ size(box) = N
            /\ flashcards_of(stage1) = SubSeq(flashcards, 1, filled)
            /\ stage0 = SubSeq(flashcards, filled + 1, N)
            /\ \A k \in 2..5 : box[k] = <<>>

C10_Witness ==
    /\ last.op = "init"
    /\ DOMAIN progress = {}
    /\ Len(flashcards) > INITIAL_QUEUE_SIZE
    /\ stage0 # <<>>

(***************************************************************************)
(* C11.  As claimed, with 20 flashcards and an empty database: init leaves *)
(* 17 flashcards in stage0, 3 envelopes in stage1 and none in stages 2..5; *)
(* the third of three increase_stage(1) calls finds stage1 drained to 0    *)
(* before its refill, which takes stage1 back to 3, with 3 in stage2.      *)
(***************************************************************************)
\* this step is the n-th call of a run of increase_stage(1) calls since init
nth_increase_of_stage1(n) ==
    /\ Called("increase_stage")
    /\ last'.stage = 1
    /\ answers' = n
    /\ Len(stage2') = n

C11_Stage1DrainsThenRefills ==
    [][/\ Called("init") =>
            /\ Len(stage0') = 17
            /\ Len(stage1') = 3
            /\ \A k \in 2..5 : box'[k] = <<>>
       /\ nth_increase_of_stage1(3) =>
            /\ Tail(stage1) = <<>>
            /\ Len(stage1') = 3
            /\ Len(stage2') = 3]_vars

(***************************************************************************)
(* C11, call by call.  init leaves 17, 3 and none as above.  Every         *)
(* increase_stage(1) call of the run finds 3 envelopes in stage1, leaves 2 *)
(* when it has popped the front, and refills stage1 to 3 with the front of *)
(* stage0 before it returns: stage1 never drains.  After the n-th call     *)
(* stage2 holds n envelopes and stage0 17 - n flashcards; after the third, *)
(* 3 and 14.                                                               *)
(***************************************************************************)
C11_RefillOnEveryCall ==
    [][/\ Called("init") =>
            /\ Len(stage0') = 17
            /\ Len(stage1') = 3
            /\ \A k \in 2..5 : box'[k] = <<>>
       /\ \A n \in 1..17 : nth_increase_of_stage1(n) =>
            /\ Len(stage1) = 3
            /\ Len(pop_front(box, 1)[1]) = 2
            /\ stage1' = Tail(stage1) \o
                   << Envelope(Head(stage0), get_hash(Head(stage0)), last'.times[2]) >>
            /\ Len(stage1') = 3
            /\ Len(stage2') = n
            /\ Len(stage0') = 17 - n]_vars

C11_Witness ==
    /\ last.op = "increase_stage"
    /\ last.stage = 1
    /\ answers = 3
    /\ Len(stage2) = 3
    /\ Len(stage1) = 3
    /\ Len(stage0) = 14

(***************************************************************************)
(* C12.  With an empty database, every answer so far correct and no        *)
(* cooldown of stages 2..5 elapsed, the i-th card that next() returns is   *)
(* the i-th flashcard of the cardbox file.  (Every returned card is        *)
(* answered, so the i-th is returned after i - 1 answers; the answers were *)
(* all correct answers of stage-1 cards when each put a card in stage2.)   *)
(***************************************************************************)
C12_PresentedInSourceOrder ==
    (/\ DOMAIN progress = {}
     /\ last.op = "next"
     /\ last.ret.kind = "Some"
     /\ Len(stage2) = answers
     /\ \A k \in 2..5 : ~ Due(box, k, last.times[1]))
    => /\ answers < Len(flashcards)
       /\ last.ret.flashcard = flashcards[answers + 1]

(***************************************************************************)
(* C13.  After Cardbox::save, db::load of the same path gives a map in     *)
(* which the hash of every envelope of stage k (1..5) has the Stage (k, t) *)
(* of that envelope's timestamp t.                                         *)
(***************************************************************************)
C13_SaveLoadRoundTrip ==
    (pc = "done" /\ last = Call("save", 0, <<>>, Unit)) =>
        LET loaded == load(files[path(ProgressDbPath)].lines)
        IN  /\ ~ loaded.panic
            /\ \A k \in 1..5 : \A i \in 1..Len(box[k]) :
                 /\ box[k][i].hash \in DOMAIN loaded.db
                 /\ loaded.db[box[k][i].hash] = Stage(k, box[k][i].timestamp)

(***************************************************************************)
(* C14.  As claimed: the file Cardbox::save writes has exactly one record  *)
(* for every hash held in stages 1..5 and no other record (none of a hash  *)
(* that only the loaded database had, none of a stage0 card), and every    *)
(* stage index in it is in 1..5.                                           *)
(***************************************************************************)
\* the hashes of the envelopes of stages 1..5
held == UNION {hashes_of(box[k]) : k \in 1..5}

\* the lines of a file that are records of hash h
records_of(lines, h) == {line \in lines : parse_line(line).ok /\ parse_line(line).hash = h}

C14_SaveIsFullReplace ==
    (pc = "done" /\ last = Call("save", 0, <<>>, Unit)) =>
        LET lines == files[path(ProgressDbPath)].lines
        IN  /\ \A line \in lines :
                 /\ parse_line(line).ok
                 /\ parse_line(line).hash \in held
                 /\ parse_line(line).stage.index \in 1..5
            /\ \A h \in held : Cardinality(records_of(lines, h)) = 1

(***************************************************************************)
(* C14, as a merge.  Cardbox::save writes the loaded progress map with the *)
(* records of stages 1..5 inserted into it: the file has exactly one       *)
(* record for every hash of the loaded map or of stages 1..5.  A hash held *)
(* in stages 1..5 has the index of the highest stage that holds it and the *)
(* timestamp of its last envelope there; a hash that only the loaded map   *)
(* had keeps its loaded record, whatever its index.                        *)
(***************************************************************************)
\* the Stage save leaves for a hash held in stages 1..5
last_inserted(h) ==
    LET k == Highest({j \in 1..5 : h \in hashes_of(box[j])})
        i == Highest({j \in 1..Len(box[k]) : box[k][j].hash = h})
    IN  Stage(k, box[k][i].timestamp)

C14_SaveMergesIntoLoaded ==
    [][(Called("save") /\ last'.ret = Unit) =>
         LET lines == files'[path(ProgressDbPath)].lines
             hashes == DOMAIN progress \cup held
         IN  /\ files'[path(ProgressDbPath)].exists
             /\ Cardinality(lines) = Cardinality(hashes)
             /\ lines = { format_line(h, IF h \in held THEN last_inserted(h)
                                                      ELSE progress[h]) :
                            h \in hashes }]_vars

C14_Witness ==
    /\ pc = "done"
    /\ last = Call("save", 0, <<>>, Unit)
    /\ held # {}
    /\ \E h \in DOMAIN progress : h \notin held /\ progress[h].index = 6
    /\ now > 0

(***************************************************************************)
(* C15.  A save either fully succeeds (it returns normally and the file    *)
(* holds every record of the progress map) or leaves the file as it was,   *)
(* so that a later load reads the store of before.                         *)
(***************************************************************************)
C15_SaveIsAllOrNothing ==
    [][Called("save") =>
         \/ /\ last'.ret = Unit
            /\ files'[path(ProgressDbPath)] = File(save_lines(progress'))
         \/ files'[path(ProgressDbPath)] = files[path(ProgressDbPath)]]_vars

(***************************************************************************)
(* C16.  When the file system fails an operation of db::load or db::save   *)
(* (open, create, read, write), the call returns an error value to its     *)
(* caller: it neither panics nor returns as after a success.               *)
(***************************************************************************)
C16_IoFailureIsAnErrorValue ==
    [][IoFailure => last'.ret = Err]_vars

(***************************************************************************)
(* C17.  increase_stage(s) and reset_stage(s) with a stage s that is none  *)
(* of 1..5 panic, and no queue and no timestamp has changed when they do   *)
(* (nor has the clock been read).                                          *)
(***************************************************************************)
\* this step is a call of increase_stage or reset_stage
StageCall == Called("increase_stage") \/ Called("reset_stage")

C17_InvalidStagePanics ==
    [][(StageCall /\ last'.stage \notin 1..5) =>
         /\ last'.ret = Panic
         /\ pc' = "panicked"
         /\ last'.times = <<>>
         /\ box' = box]_vars

C17_Witness ==
    /\ last.op = "reset_stage"
    /\ last.stage = 0
    /\ last.ret = Panic
    /\ stage1 # <<>>
    /\ stage5 # <<>>

(***************************************************************************)
(* C18.  increase_stage(k) and reset_stage(k), k in 1..5, called while the *)
(* queue of stage k is empty panic, and no queue and no timestamp has      *)
(* changed when they do: no card of another stage is moved.                *)
(***************************************************************************)
C18_EmptyStagePanics ==
    [][(StageCall /\ last'.stage \in 1..5 /\ box[last'.stage] = <<>>) =>
         /\ last'.ret = Panic
         /\ pc' = "panicked"
         /\ last'.times = <<>>
         /\ box' = box]_vars

C18_Witness ==
    /\ last.op = "increase_stage"
    /\ last.stage = 2
    /\ last.ret = Panic
    /\ stage2 = <<>>
    /\ stage1 # <<>>
    /\ stage3 # <<>>

(***************************************************************************)
(* C19.  Whenever the loaded store contains a record whose stage index is  *)
(* outside 1..5, init aborts with a fatal error: such a record is in the   *)
(* progress map only between the load and the init that panics on it, and  *)
(* is never kept through the session or written back by save.              *)
(***************************************************************************)
\* the hashes whose record in db has a stage index that is none of 1..5
invalid_records(db) == {h \in DOMAIN db : db[h].index \notin 1..5}

C19_InvalidIndexIsFatal ==
    invalid_records(progress) # {} =>
        \/ pc = "new"
        \/ pc = "panicked" /\ last.op = "init" /\ last.ret = Panic

(***************************************************************************)
(* C20.  db::load on a path where no file exists creates an empty file     *)
(* there, terminates, and returns an empty mapping (the file system doing  *)
(* what it is asked).                                                      *)
(***************************************************************************)
C20_LoadBootstrapsMissingFile ==
    [][(Called("new") /\ ~ files[ProgressDbPath].exists) =>
         /\ files'[ProgressDbPath] = File({})
         /\ last'.ret = Unit
         /\ progress' = <<>>]_vars

(***************************************************************************)
(* C21.  db::load aborts on every line that is not exactly three           *)
(* ';'-separated unsigned decimal fields (too few fields, extra fields,    *)
(* non-numeric fields) and on every line it cannot read: it never returns  *)
(* a mapping made while such a line was in the file.                       *)
(***************************************************************************)
\* the text is a decimal number: digits only, and at least one
is_decimal(text) ==
    text # <<>> /\ \A i \in 1..Len(text) : \E d \in 1..10 : Digits[d] = text[i]

\* the line is exactly three decimal fields
three_decimal_fields(line) ==
    LET parts == split(line, ";")
    IN  Len(parts) = 3 /\ \A i \in 1..3 : is_decimal(parts[i])

C21_LoadAbortsOnBadLine ==
    [][(/\ Called("new")
        /\ \/ new_skipping_lines
           \/ \E line \in files[path(ProgressDbPath)].lines : ~ three_decimal_fields(line))
       => last'.ret = Panic]_vars

(***************************************************************************)
(* C22.  db::clean(path, cutoff) leaves in the store exactly those records *)
(* of the previous store whose timestamp_ms >= cutoff, each with unchanged *)
(* fingerprint, stage and timestamp: the records with a timestamp below    *)
(* the cutoff are removed and nothing is added.  The store is the file the *)
(* build reads and writes; a store that was missing had no record.         *)
(***************************************************************************)
\* the records of a store: the mapping of its lines
records(file) == IF file.exists THEN load(file.lines).db ELSE <<>>

C22_CleanKeepsNewer ==
    [][(Called("clean") /\ last'.ret # Panic) =>
         \E before \in {records(files[path(ProgressDbPath)])},
            after \in {records(files'[path(ProgressDbPath)])} :
             /\ files'[path(ProgressDbPath)].exists
             /\ DOMAIN after =
                  {h \in DOMAIN before : before[h].timestamp_ms >= last'.older_than}
             /\ \A h \in DOMAIN after : after[h] = before[h]
             /\ Cardinality(files'[path(ProgressDbPath)].lines) =
                  Cardinality(DOMAIN after)]_vars

\* clean has returned after a saved session, having removed a record older
\* than the cutoff and kept one whose timestamp is the cutoff
C22_Witness ==
    /\ pc = "done"
    /\ last.op = "clean"
    /\ last.ret = Unit
    /\ \E gone \in DOMAIN progress, kept \in DOMAIN progress :
         /\ progress[gone].timestamp_ms < last.older_than
         /\ progress[kept].timestamp_ms = last.older_than
         /\ files[path(ProgressDbPath)].lines = {format_line(kept, progress[kept])}

(***************************************************************************)
(* C23.  get_hash depends only on subject and back content: two cards with *)
(* identical subject and back content have the same fingerprint whatever   *)
(* their face text and note, and a second call returns what the first did. *)
(***************************************************************************)
\* get_hash has been called on the flashcards
Hashed == pc = "hashed" /\ last.op = "get_hash"

C23_HashOfSubjectAndBack ==
    [][Hashed' =>
         /\ \A i, j \in 1..Len(flashcards) :
               (flashcards[i].subject = flashcards[j].subject
                  /\ flashcards[i].back = flashcards[j].back)
               => last'.ret.values[i] = last'.ret.values[j]
         /\ Hashed => last'.ret = last.ret]_vars

C23_Witness ==
    /\ Hashed
    /\ last.stage = 2
    /\ flashcards[1].subject = flashcards[2].subject
    /\ flashcards[1].back = flashcards[2].back
    /\ flashcards[1].back.kind = "FillTheBlank"
    /\ flashcards[1].face # flashcards[2].face
    /\ flashcards[1].note # flashcards[2].note
    /\ last.ret.values[1] = last.ret.values[2]

(***************************************************************************)
(* C24.  For any two cards with the same subject whose back content        *)
(* differs (a different sequence of lines or line parts, different blank   *)
(* flags, or a different back type), get_hash differs, the 64-bit hash     *)
(* being injective on the byte stream it is fed.                           *)
(***************************************************************************)
C24_DifferentBackDifferentHash ==
    Hashed =>
        \A i, j \in 1..Len(flashcards) :
            (flashcards[i].subject = flashcards[j].subject
               /\ flashcards[i].back # flashcards[j].back)
            => last.ret.values[i] # last.ret.values[j]

(***************************************************************************)
(* C25.  Across any sequence of operations, an envelope's timestamp is     *)
(* changed by an operation if and only if that operation changes the stage *)
(* of that card; an operation that leaves a card in its stage leaves its   *)
(* timestamp unchanged.                                                    *)
(***************************************************************************)
\* the flashcards that b holds in an envelope
enveloped(b) == UNION {{b[k][i].flashcard : i \in 1..Len(b[k])} : k \in 1..5}

\* the stage of b that holds the flashcard in an envelope
stage_of(b, flashcard) ==
    CHOOSE k \in 1..5 : \E i \in 1..Len(b[k]) : b[k][i].flashcard = flashcard

\* the timestamp of the envelope of the flashcard
timestamp_of(b, flashcard) ==
    LET k == stage_of(b, flashcard)
        i == CHOOSE x \in 1..Len(b[k]) : b[k][x].flashcard = flashcard
    IN  b[k][i].timestamp

C25_TimestampChangesWithStage ==
    [][\A flashcard \in enveloped(box) \cap enveloped(box') :
          (timestamp_of(box', flashcard) # timestamp_of(box, flashcard))
          <=> (stage_of(box', flashcard) # stage_of(box, flashcard))]_vars

\* this step is a call of increase_stage or reset_stage that returns
Answered == StageCall /\ last'.ret = Unit

\* As the code has it: the timestamp of an envelope is set by the call of
\* increase_stage or reset_stage that answers its card, to the clock reading
\* of the call, whether the card changes its stage or stays in it (a pass
\* in stage 5, a reset in stage 1); a step changes neither the stage nor the
\* timestamp of any other envelope; and a flashcard that gets its envelope
\* is stamped with a clock reading of that step.
C25_TimestampSetOnAnswer ==
    [][/\ Answered =>
            timestamp_of(box', Head(box[last'.stage]).flashcard) = Head(last'.times)
       /\ \A flashcard \in enveloped(box) :
             (Answered => flashcard # Head(box[last'.stage]).flashcard) =>
                 /\ flashcard \in enveloped(box')
                 /\ stage_of(box', flashcard) = stage_of(box, flashcard)
                 /\ timestamp_of(box', flashcard) = timestamp_of(box, flashcard)
       /\ \A flashcard \in enveloped(box') \ enveloped(box) :
             \/ \E i \in 1..Len(last'.times) :
                   timestamp_of(box', flashcard) = last'.times[i]
             \/ Called("init") /\ get_hash(flashcard) \in DOMAIN progress]_vars

\* a card passed in stage 5 has stayed there with a new timestamp
C25_Witness ==
    /\ last.op = "increase_stage"
    /\ last.stage = 5
    /\ last.ret = Unit
    /\ Len(stage5) > 1
    /\ stage5[Len(stage5)].timestamp = Head(last.times)
    /\ stage5[Len(stage5)].timestamp > stage5[1].timestamp

(***************************************************************************)
(* C26.  The persisted store is written only by Cardbox.save (and          *)
(* db::clean): init, next, increase_stage and reset_stage never change it, *)
(* nor does the end of the loop, so a session that stops at any point      *)
(* before save leaves the store with exactly the content it had when       *)
(* loaded.  The load itself changes no line: all it may do is create the   *)
(* file, empty, where there was none.                                      *)
(***************************************************************************)
C26_StoreWrittenBySaveOnly ==
    [][/\ ~ (Called("save") \/ Called("clean") \/ Called("new")) => files' = files
       /\ Called("new") =>
            \A p \in Paths : /\ files'[p].lines = files[p].lines
                             /\ files[p].exists => files'[p] = files[p]]_vars

\* the loop has ended after an answer: the queues hold progress that the
\* store, which is as it was loaded, does not have
C26_Witness ==
    /\ pc = "exit"
    /\ answers > 0
    /\ last.op \in {"increase_stage", "reset_stage"}
    /\ last.ret = Unit
    /\ files[path(ProgressDbPath)].exists
    /\ files[path(ProgressDbPath)].lines = save_lines(progress)
    /\ progress # <<>>
    /\ save_lines(saved_progress(progress, box)) # files[path(ProgressDbPath)].lines

(***************************************************************************)
(* C27.  In the session loop a presented card is promoted only if every    *)
(* line of its back was entered correctly: FlashcardValidator.passed() is  *)
(* true only when every InputValidator received all of its expected        *)
(* characters correctly (passed() implies happy()).                        *)
(***************************************************************************)
C27_PassedImpliesHappy ==
    (pc = "validated" /\ last.op = "passed" /\ last.ret = Bool(TRUE)) =>
        /\ all_happy(card_validator)
        /\ \A k \in 1..card_validator.length :
              entered[k] = card_validator.validators[k].expected

(***************************************************************************)
(* C28.  InputValidator.check(c) called with index < length returns true   *)
(* exactly when c equals the expected character at the current index,      *)
(* records that result for that position and advances index by one; called *)
(* with index >= length it returns false and changes nothing.              *)
(***************************************************************************)
C28_CheckRecordsAndAdvances ==
    [][\A c \in Chars : on_check(c) =>
         LET v == current
             after == card_validator'.validators[validating + 1]
         IN  IF v.index < v.length
             THEN /\ last'.ret = Bool(c = v.expected[v.index + 1])
                  /\ after.received[v.index + 1] = (c = v.expected[v.index + 1])
                  /\ after.index = v.index + 1
                  /\ after = [v EXCEPT !.index = after.index,
                                        !.received[v.index + 1] = after.received[v.index + 1]]
             ELSE /\ last'.ret = Bool(FALSE)
                  /\ after = v]_vars

\* a wrong character has been checked at the last position, after a right
\* one at the first
C28_Witness ==
    /\ pc = "validating"
    /\ last.op = "check"
    /\ last.ret = Bool(FALSE)
    /\ validating < card_validator.length
    /\ current.expected = <<1, 2>>
    /\ current.index = 2
    /\ current.received = <<TRUE, FALSE>>

(***************************************************************************)
(* C29.  After any sequence of check and undo(n) calls with n <= index,    *)
(* happy() is true exactly when index = length and, for every position,    *)
(* the most recent character checked there and not undone equals the       *)
(* expected character (the characters on the input line are the expected   *)
(* ones); a wrong character that was undone does not count.                *)
(***************************************************************************)
C29_HappyWhenLineIsExpected ==
    (card_validator # <<>> /\ last.ret # Panic) =>
        \A k \in 1..card_validator.length :
            LET v == card_validator.validators[k]
            IN  /\ Len(entered[k]) = v.index
                /\ happy(v) <=> (v.index = v.length /\ entered[k] = v.expected)

\* the line is right after a character was taken back and typed again
C29_Witness ==
    /\ pc = "validating"
    /\ validating < card_validator.length
    /\ current.expected = <<1, 2>>
    /\ happy(current)
    /\ last.op = "check"
    /\ current.hint_mode = Inactive
    /\ current.passed

(***************************************************************************)
(* C30.  Successive peek() calls with no typing in between return the      *)
(* expected characters one per call, starting at the current index and in  *)
(* order, and return None once nothing remains to reveal (including when   *)
(* index = length or the expected string is empty); peek never changes     *)
(* index or the per-character results.                                     *)
(***************************************************************************)
C30_PeekRevealsInOrder ==
    [][on_peek =>
         LET v == current
             after == card_validator'.validators[validating + 1]
             \* the position to reveal: the one after the last revealed when
             \* the call before was a peek of this validator, else the index
             position == IF last.op = "peek" /\ last.on = validating
                            /\ v.hint_mode # Inactive
                         THEN v.hint_mode.index + 1 ELSE v.index
         IN  /\ after.index = v.index
             /\ after.received = v.received
             /\ last'.ret = IF position < v.length
                            THEN SomeChar(v.expected[position + 1]) ELSE None]_vars

(***************************************************************************)
(* C31.  With ALLOWED_HINTS_PER_LINE = 0, a line on which any hint was     *)
(* revealed is not passed: after any peek() call that returns a character, *)
(* passed() is false, and it stays false for the rest of that validator's  *)
(* life (including after end_peek and reset).                              *)
(***************************************************************************)
C31_HintedLineNotPassed ==
    [][/\ (on_peek /\ last'.ret.kind = "Some") =>
             ~passed(card_validator'.validators[validating + 1])
       /\ \A k \in 1..card_validator.length :
             ~passed(card_validator.validators[k]) =>
                 ~passed(card_validator'.validators[k])]_vars

(***************************************************************************)
(* C32.  After reset(), an InputValidator behaves as a newly constructed   *)
(* validator for the same expected string: every subsequent sequence of    *)
(* check, undo, peek, happy, passed and first_incorrect calls gives the    *)
(* same results as on a fresh validator.                                   *)
(***************************************************************************)
\* the most calls in a sequence made after a reset
MaxCalls == 2

TypingCalls ==
    {MethodCall("check", c) : c \in Chars}
        \cup {MethodCall("undo", num) : num \in 0..2}
        \cup {MethodCall("happy", 0), MethodCall("first_incorrect", 0)}

HintCalls == {MethodCall("peek", 0), MethodCall("passed", 0)}

CallSequences(calls) == UNION {[1..n -> calls] : n \in 0..MaxCalls}

same_results(calls) ==
    on_reset =>
        LET after == card_validator'.validators[validating + 1]
            fresh == InputValidator(current.expected)
        IN  \A sequence \in CallSequences(calls) :
                results(after, sequence) = results(fresh, sequence)

C32_ResetBehavesAsNew == [][same_results(TypingCalls \cup HintCalls)]_vars

\* C32 as the code has it: after reset() the index and the per-character
\* results are those of a new validator, so every sequence of check, undo,
\* happy and first_incorrect calls gives the results of a fresh validator;
\* the hint mode and passed are left as they were
C32_ResetBehavesAsNewForTyping ==
    [][/\ same_results(TypingCalls)
       /\ on_reset =>
            card_validator'.validators[validating + 1] =
                [InputValidator(current.expected) EXCEPT
                    !.hint_mode = current.hint_mode,
                    !.passed = current.passed]]_vars

\* a reset of a line with a character typed, a hint on and passed lost
C32_Witness ==
    /\ pc = "validating"
    /\ last.op = "reset"
    /\ validating < card_validator.length
    /\ current.expected = <<1, 2>>
    /\ current.index = 0
    /\ current.hint_mode = Active(1)
    /\ ~current.passed

(***************************************************************************)
(* C33.  cardbox_parser::parse returns exactly one flashcard for each face *)
(* line ('#' or '##') that is followed by at least one back line, in       *)
(* source order, with the back type chosen by the number of leading '#'    *)
(* (1 = WriteTheLine, 2 = FillTheBlank); blank lines and '%' comment lines *)
(* do not change the result.                                               *)
(***************************************************************************)
\* what a line of a cardbox file is, by its first character
kind_of(text) ==
    LET line == trim(text)
    IN  IF line = <<>> THEN "blank"
        ELSE IF Head(line) = "#" THEN "face"
        ELSE IF Head(line) = "!" THEN "note"
        ELSE IF Head(line) = "%" THEN "comment"
        ELSE "back"

ignored(text) == kind_of(text) \in {"blank", "comment"}

\* the line after line i that is not ignored is a back line
followed_by_back(buff, i) ==
    \E j \in (i + 1)..Len(buff) :
        /\ kind_of(buff[j]) = "back"
        /\ \A k \in (i + 1)..(j - 1) : ignored(buff[k])

RECURSIVE faces_with_back(_, _)
\* the numbers of leading '#' of the face lines from line i on that are
\* followed by a back line
faces_with_back(buff, i) ==
    IF i > Len(buff) THEN <<>>
    ELSE IF kind_of(buff[i]) = "face" /\ followed_by_back(buff, i)
    THEN <<take_while_face(trim(buff[i]))>> \o faces_with_back(buff, i + 1)
    ELSE faces_with_back(buff, i + 1)

without_ignored(buff) == SelectSeq(buff, LAMBDA text : ~ignored(text))

type_of(flashcard) == IF flashcard.back.kind = "WriteTheLine" THEN 1 ELSE 2

C33_OneFlashcardPerFaceWithBack ==
    (pc \in {"parsed", "panicked"} /\ last.op = "parse") =>
        /\ last.ret # Panic =>
             [k \in 1..Len(last.ret.value) |-> type_of(last.ret.value[k])]
                 = faces_with_back(parser.buff, 1)
        /\ (\A i \in 1..Len(parser.buff) : ignored(parser.buff[i])) => last.ret = Vec(<<>>)
        /\ parse(without_ignored(parser.buff), parser.factory.subject) = last.ret

(***************************************************************************)
(* C34.  The parser state changes only along the transitions allowed by    *)
(* can_move_to (Init->Face; Face->Back; Back->Face, Back->Back,            *)
(* Back->Note; Note->Face): a back or note line before any face line, two  *)
(* consecutive face lines, a note directly after a face line, and a back   *)
(* or second note line after a note all abort parsing with a panic, and no *)
(* flashcard is returned for that input.                                   *)
(***************************************************************************)
AllowedMoves ==
    { <<"Init", "Face">>, <<"Face", "Back">>, <<"Back", "Face">>, <<"Back", "Back">>,
      <<"Back", "Note">>, <<"Note", "Face">> }

\* the state a line asks for
state_for(text) ==
    CASE kind_of(text) = "face" -> "Face"
      [] kind_of(text) = "note" -> "Note"
      [] kind_of(text) = "back" -> "Back"

C34_OnlyAllowedMoves ==
    [][/\ for_line =>
            LET text == parser.buff[parser.position + 1]
            IN  IF ignored(text)
                THEN parser'.state = parser.state /\ pc' = "parsing"
                ELSE IF <<parser.state, state_for(text)>> \in AllowedMoves
                THEN pc' = "panicked" \/ parser'.state = state_for(text)
                ELSE /\ pc' = "panicked"
                     /\ last'.ret = Panic
                     /\ flashcards' = <<>>
       /\ parser'.state # parser.state => <<parser.state, parser'.state>> \in AllowedMoves
       /\ pc = "panicked" => pc' = "panicked" /\ flashcards' = <<>>]_vars

\* parsing stopped at a note line right after the face line of the second
\* flashcard, the first one built
C34_Witness ==
    /\ pc = "panicked"
    /\ last = Call("parse", 0, <<>>, Panic)
    /\ parser.state = "Face"
    /\ Len(parser.flashcards) = 1
    /\ kind_of(parser.buff[parser.position]) = "note"
    /\ flashcards = <<>>

(***************************************************************************)
(* C35.  If every presented card is answered correctly and no stage-2..5   *)
(* cooldown elapses during the session, the session loop terminates: each  *)
(* card that is in stage0 or stage1 after init is presented exactly once   *)
(* (it is in stage2 at the end), then next() returns None, with stage0 and *)
(* stage1 empty.  next() returns None only when stage1 is empty and every  *)
(* non-empty stage 2..5 has a front that is still on cooldown.             *)
(***************************************************************************)
\* the flashcards that init puts into stage0 or stage1
in_stage0_or_stage1_after_init ==
    { i \in 1..Len(flashcards) :
        \/ get_hash(flashcards[i]) \notin DOMAIN progress
        \/ progress[get_hash(flashcards[i])].index = 1 }

next_returned_none == pc = "exit" /\ last.op = "next" /\ last.ret = None

C35_SessionTerminates ==
    /\ (pc = "loop") ~> (next_returned_none /\ stage0 = <<>> /\ stage1 = <<>>)
    /\ [](next_returned_none =>
            /\ \A i \in in_stage0_or_stage1_after_init :
                 \E j \in 1..Len(stage2) : stage2[j].flashcard = flashcards[i]
            /\ stage1 = <<>>
            /\ \A k \in 2..5 : ~ Due(box, k, last.times[1]))

(***************************************************************************)
(* C36.  In every reachable state (with a non-decreasing clock), within    *)
(* each queue stage1..stage5 the envelopes' timestamps are non-decreasing  *)
(* from front to back, so the front of a queue is the oldest-enqueued      *)
(* envelope of that stage and no due envelope ever waits behind a front    *)
(* that is not yet due.                                                    *)
(***************************************************************************)
C36_TimestampsNonDecreasing ==
    \A k \in 1..5 :
        /\ \A i \in 1..Len(box[k]), j \in 1..Len(box[k]) :
              i < j => box[k][i].timestamp <= box[k][j].timestamp
        /\ \A i \in 1..Len(box[k]) : elapsed(box, k, i, now) => elapsed(box, k, 1, now)

\* envelope i of stage k is as the progress database has it
as_recorded(k, i) ==
    /\ box[k][i].hash \in DOMAIN progress
    /\ progress[box[k][i].hash] = Stage(k, box[k][i].timestamp)

\* the place of a flashcard in the cardbox file
source_index(flashcard) == CHOOSE n \in 1..Len(flashcards) : flashcards[n] = flashcard

\* C36 as the code has it: the envelopes a session enqueues stand in the
\* order of their timestamps, behind the envelopes init placed from the
\* database; those stand in the order of the cardbox file with the
\* timestamps of their records, so a later timestamp before an earlier one
\* is found only between two envelopes that are as recorded
C36_SessionEnqueuesInTimeOrder ==
    \A k \in 1..5 : \A i \in 1..Len(box[k]), j \in 1..Len(box[k]) :
        (i < j /\ box[k][i].timestamp > box[k][j].timestamp) =>
            /\ as_recorded(k, i)
            /\ as_recorded(k, j)
            /\ source_index(box[k][i].flashcard) < source_index(box[k][j].flashcard)

\* stage2 holds two envelopes from the database, the later one first, and
\* behind them one that this session promoted; the second is due, the
\* front is not
C36_Witness ==
    /\ last.op = "increase_stage"
    /\ last.ret = Unit
    /\ Len(stage2) = 3
    /\ stage2[1].timestamp > stage2[2].timestamp
    /\ stage2[3].timestamp >= stage2[1].timestamp
    /\ elapsed(box, 2, 2, now)
    /\ ~ elapsed(box, 2, 1, now)

(***************************************************************************)
(* C37.  In every state reachable after init, if stage0 is non-empty then  *)
(* stage1 holds at least INITIAL_QUEUE_SIZE envelopes; and stage0 only     *)
(* ever shrinks from its front: no operation adds a card to stage0 or      *)
(* returns a card from stages 1..5 to stage0.                              *)
(***************************************************************************)
C37_Stage0OnlyFeedsStage1 ==
    /\ [](Initialised => (stage0 # <<>> => Len(stage1) >= INITIAL_QUEUE_SIZE))
    /\ [][Initialised =>
            \E n \in 0..Len(stage0) : stage0' = SubSeq(stage0, n + 1, Len(stage0))]_vars

\* a wrong answer has sent the first card to the back of stage1 while the
\* last card of the file waits in stage0
C37_Witness ==
    /\ last.op = "reset_stage"
    /\ last.ret = Unit
    /\ Len(flashcards) = INITIAL_QUEUE_SIZE + 1
    /\ stage0 = <<flashcards[Len(flashcards)]>>
    /\ Len(stage1) = INITIAL_QUEUE_SIZE
    /\ stage1[INITIAL_QUEUE_SIZE].flashcard = flashcards[1]

(***************************************************************************)
(* C38.  After Cardbox.save followed by a fresh Cardbox::new + init over   *)
(* the same card list, every queue stage1..stage5 contains the same cards  *)
(* with the same timestamps in the same front-to-back order as before the  *)
(* save, and stage0 contains the same cards in the same order.             *)
(***************************************************************************)
\* save has returned and the database file is written
saved == pc = "done" /\ last.op = "save" /\ last.ret = Unit

C38_ReopenedAsSaved ==
    saved =>
        /\ ~ reopened_unfilled.panic
        /\ \A times \in ClockReadings(refill_count(reopened_unfilled.box)) :
               reopened(times) = box

\* the flashcard shares its hash with no other flashcard of the file
sole_of_hash(flashcard) ==
    \A n \in 1..Len(flashcards) :
        get_hash(flashcards[n]) = get_hash(flashcard) => flashcards[n] = flashcard

\* the envelopes or flashcards of the queue in the order of the cardbox file
in_source_order(queue, card_of(_)) ==
    \A i \in 1..Len(queue), j \in 1..Len(queue) :
        i < j => source_index(card_of(queue[i])) < source_index(card_of(queue[j]))

\* the queues hold the same envelopes or flashcards, in whatever order
same_members(queue, other) ==
    /\ Len(queue) = Len(other)
    /\ { queue[i] : i \in 1..Len(queue) } = { other[i] : i \in 1..Len(other) }

\* C38 as the code has it: the database has no order and init fills the
\* queues in the order of the cardbox file.  An envelope whose flashcard
\* shares its hash with no other is found again in its stage with its
\* timestamp; where no two flashcards share a hash every queue holds what it
\* held before the save, in the order of the cardbox file
C38_ReopenedInSourceOrder ==
    saved =>
        \A unfilled \in {reopened_unfilled} :
          /\ ~ unfilled.panic
          /\ \A times \in ClockReadings(refill_count(unfilled.box)) :
               \A again \in {refill(unfilled.box, times)} :
                 LET card(envelope) == envelope.flashcard
                     self(flashcard) == flashcard
                 IN  /\ \A k \in 1..5 : \A i \in 1..Len(box[k]) :
                            sole_of_hash(box[k][i].flashcard) =>
                                \E j \in 1..Len(again[k]) : again[k][j] = box[k][i]
                     /\ (\A n \in 1..Len(flashcards) : sole_of_hash(flashcards[n])) =>
                            /\ \A k \in 1..5 : /\ same_members(again[k], box[k])
                                               /\ in_source_order(again[k], card)
                            /\ again[0] = stage0
                            /\ in_source_order(again[0], self)

\* saved after a wrong answer to the first card and a right one to the
\* second: stage1 holds the third card before the first
C38_Witness ==
    /\ saved
    /\ Len(flashcards) = 3
    /\ stage2 # <<>>
    /\ Len(stage1) = 2
    /\ stage1[1].flashcard = flashcards[3]
    /\ stage1[2].flashcard = flashcards[1]
    /\ reopened(<<>>)[1] # stage1

(***************************************************************************)
(* C39.  For every sequence of check(c), undo(n) (any n >= 0, including n  *)
(* greater than the current index), reset() and peek() calls on an         *)
(* InputValidator, 0 <= index <= length holds in every state and no call   *)
(* fails with an arithmetic underflow or an out-of-bounds access.          *)
(***************************************************************************)
C39_IndexInBoundsAndNoCallFails ==
    /\ \A k \in 1..Len(card_validator.validators) :
           LET v == card_validator.validators[k]
           IN  0 <= v.index /\ v.index <= v.length
    /\ last.op \in {"check", "undo", "reset", "peek"} => last.ret # Panic

====
